---- MODULE Spec2Model ----
(***************************************************************************)
(* CloudPyASDF: a container (HDF5 file) whose structure is stored in it as *)
(* a text dictionary (dump_dict), a CloudASDFDataSet that decodes that     *)
(* dictionary through a partial-read gateway (read_dict) and the accessors *)
(* (StationAccessor, WaveformAccessor, DatalessWaveformAccessor,           *)
(* AuxiliaryDataGroupAccessor) that answer queries from it.                *)
(*                                                                         *)
(* Text is a sequence of one-character strings, bytes are a sequence of    *)
(* numbers 0..255; str.encode() and the decoding done by eval() convert    *)
(* between the two through the ASCII table.                                *)
(***************************************************************************)
EXTENDS Integers, Sequences, FiniteSets, TLC

(***************************************************************************)
(* Python str / bytes primitives used by the code.                         *)
(***************************************************************************)

\* The printable ASCII characters, code points 32..126, in order (the double
\* quote, the backslash and the backtick are written by name).
Ascii ==
    << " ", "!", "DQUOTE", "#", "$", "%", "&", "'", "(", ")", "*", "+", ",", "-", ".", "/",
       "0", "1", "2", "3", "4", "5", "6", "7", "8", "9", ":", ";", "<", "=", ">", "?",
       "@", "A", "B", "C", "D", "E", "F", "G", "H", "I", "J", "K", "L", "M", "N", "O",
       "P", "Q", "R", "S", "T", "U", "V", "W", "X", "Y", "Z", "[", "BSLASH", "]", "^", "_",
       "BTICK", "a", "b", "c", "d", "e", "f", "g", "h", "i", "j", "k", "l", "m", "n", "o",
       "p", "q", "r", "s", "t", "u", "v", "w", "x", "y", "z", "{", "|", "}", "~" >>

AsciiChars == {Ascii[i] : i \in DOMAIN Ascii}

\* ord(c) of a printable character.
OrdTable == [c \in AsciiChars |-> 31 + (CHOOSE i \in DOMAIN Ascii : Ascii[i] = c)]

Ord(c) == OrdTable[c]

\* chr(b) of a printable byte; any other byte decodes to no character of a
\* name, written "?".
Chr(b) == IF b - 31 \in DOMAIN Ascii THEN Ascii[b - 31] ELSE "?"

\* str.encode(): text to bytes.
Encode(s) == [i \in DOMAIN s |-> Ord(s[i])]

\* bytes to text, as eval() reads its source.
Decode(b) == [i \in DOMAIN b |-> Chr(b[i])]

Min(S) == CHOOSE x \in S : \A y \in S : x <= y

Max(S) == 0 - Min({0 - x : x \in S})

\* s[:n]
Take(s, n) == SubSeq(s, 1, Min({n, Len(s)}))

\* s[i:] with i counted from 1.
Drop(s, i) == SubSeq(s, i, Len(s))

\* Whether pat occurs in s at position i.
OccursAt(s, pat, i) ==
    /\ i >= 1
    /\ i + Len(pat) - 1 <= Len(s)
    /\ \A k \in DOMAIN pat : s[i + k - 1] = pat[k]

\* str.find(pat, from): the first position >= from where pat occurs, 0 if none.
Find(s, pat, from) ==
    LET last == Len(s) - Len(pat) + 1
        hit  == CHOOSE i \in from .. last + 1 :
                    /\ i = last + 1 \/ OccursAt(s, pat, i)
                    /\ \A j \in from .. i - 1 : ~OccursAt(s, pat, j)
    IN  IF from > last THEN 0 ELSE IF hit > last THEN 0 ELSE hit

\* pat in s
Contains(s, pat) == Find(s, pat, 1) # 0

\* s.endswith(suf)
EndsWith(s, suf) == OccursAt(s, suf, Len(s) - Len(suf) + 1)

\* s.startswith(pre)
StartsWith(s, pre) == OccursAt(s, pre, 1)

\* str.split(sep): the separators are found left to right, never overlapping.
RECURSIVE SplitFrom(_, _, _)
SplitFrom(s, sep, from) ==
    LET j == Find(s, sep, from)
    IN  IF j = 0
        THEN << SubSeq(s, from, Len(s)) >>
        ELSE << SubSeq(s, from, j - 1) >> \o SplitFrom(s, sep, j + Len(sep))

Split(s, sep) == SplitFrom(s, sep, 1)

\* sep.join(parts)
RECURSIVE Join(_, _)
Join(parts, sep) ==
    IF Len(parts) = 0 THEN << >>
    ELSE IF Len(parts) = 1 THEN parts[1]
    ELSE parts[1] \o sep \o Join(Tail(parts), sep)

\* str.replace(old, new) for a one-character old and new.
Replace(s, old, new) == [i \in DOMAIN s |-> IF s[i] = old THEN new ELSE s[i]]

\* The order Python gives of two strings: by code point, a proper prefix first.
StrLess(a, b) ==
    LET n == Min({Len(a), Len(b)})
        diff == {i \in 1 .. n : a[i] # b[i]}
    IN  IF diff = {} THEN Len(a) < Len(b)
        ELSE Ord(a[Min(diff)]) < Ord(b[Min(diff)])

\* sorted(S) of a set of distinct strings.
RECURSIVE SortedSeq(_)
SortedSeq(S) ==
    IF S = {} THEN << >>
    ELSE LET m == CHOOSE x \in S : \A y \in S \ {x} : StrLess(x, y)
         IN  << m >> \o SortedSeq(S \ {m})

Range(f) == {f[i] : i \in DOMAIN f}

IsDigit(c) == c \in {"0", "1", "2", "3", "4", "5", "6", "7", "8", "9"}

DigitVal(c) == Ord(c) - 48

\* int(s) of a run of decimal digits.
RECURSIVE StrToInt(_)
StrToInt(s) ==
    IF Len(s) = 0 THEN 0
    ELSE 10 * StrToInt(SubSeq(s, 1, Len(s) - 1)) + DigitVal(s[Len(s)])

\* str(n) of a natural number.
RECURSIVE IntToStr(_)
IntToStr(n) ==
    IF n < 10 THEN << Chr(48 + n) >>
    ELSE IntToStr(n \div 10) \o << Chr(48 + (n % 10)) >>

(***************************************************************************)
(* datetime.datetime.strptime and timedelta.total_seconds.                 *)
(***************************************************************************)

\* The two formats the code passes to strptime, as directives and literals.
FmtWhole == << "%Y", "-", "%m", "-", "%d", "T", "%H", ":", "%M", ":", "%S" >>

FmtFrac == FmtWhole \o << ".", "%f" >>

IsDirective(item) == item \in {"%Y", "%m", "%d", "%H", "%M", "%S", "%f"}

\* The end of the run of digits that starts at position i (i - 1 when s[i] is
\* no digit).
DigitRunEnd(s, i) ==
    IF i > Len(s) THEN Len(s)
    ELSE (CHOOSE k \in i .. Len(s) + 1 :
              /\ k = Len(s) + 1 \/ ~IsDigit(s[k])
              /\ \A j \in i .. k - 1 : IsDigit(s[j])) - 1

\* Whether a run of digits matches the regular expression strptime compiles
\* the directive to: %Y \d\d\d\d, %m 1[0-2]|0[1-9]|[1-9],
\* %d 3[0-1]|[1-2]\d|0[1-9]|[1-9], %H 2[0-3]|[0-1]\d|\d, %M [0-5]\d|\d,
\* %S 6[0-1]|[0-5]\d|\d, %f [0-9]{1,6}.
DirectiveMatches(dir, run) ==
    LET n == Len(run)
        v == StrToInt(run)
    IN  CASE dir = "%Y" -> n = 4
          [] dir = "%m" -> n \in 1 .. 2 /\ v \in 1 .. 12
          [] dir = "%d" -> n \in 1 .. 2 /\ v \in 1 .. 31
          [] dir = "%H" -> n \in 1 .. 2 /\ v \in 0 .. 23
          [] dir = "%M" -> n \in 1 .. 2 /\ v \in 0 .. 59
          [] dir = "%S" -> n \in 1 .. 2 /\ v \in 0 .. 61
          [] dir = "%f" -> n \in 1 .. 6

\* The value strptime stores for a directive: %f is padded with zeros to six
\* digits, the others are the number read.
RECURSIVE PadMicro(_)
PadMicro(run) == IF Len(run) >= 6 THEN run ELSE PadMicro(run \o << "0" >>)

DirectiveValue(dir, run) ==
    IF dir = "%f" THEN StrToInt(PadMicro(run)) ELSE StrToInt(run)

\* The format is matched with re.IGNORECASE, so the literal T also matches t.
LiteralMatches(lit, c) == c = lit \/ (lit = "T" /\ c = "t")

NoFields == [d \in {"%Y", "%m", "%d", "%H", "%M", "%S", "%f"} |-> 0]

\* Matching of the format items k.. against s from position pos.  Every
\* directive is a run of digits and every literal is no digit, so a directive
\* takes the whole run of digits in front of the next literal.  The result is
\* the fields read, or ok = FALSE (the ValueError of strptime: the string does
\* not match the format, or unconverted data remains).
RECURSIVE MatchFormat(_, _, _, _, _)
MatchFormat(s, fmt, k, pos, acc) ==
    IF k > Len(fmt)
    THEN [ok |-> pos = Len(s) + 1, f |-> acc]
    ELSE IF IsDirective(fmt[k])
         THEN LET e == DigitRunEnd(s, pos)
                  run == SubSeq(s, pos, e)
              IN  IF e >= pos /\ DirectiveMatches(fmt[k], run)
                  THEN MatchFormat(s, fmt, k + 1, e + 1,
                                   [acc EXCEPT ![fmt[k]] = DirectiveValue(fmt[k], run)])
                  ELSE [ok |-> FALSE, f |-> acc]
         ELSE IF pos <= Len(s) /\ LiteralMatches(fmt[k], s[pos])
              THEN MatchFormat(s, fmt, k + 1, pos + 1, acc)
              ELSE [ok |-> FALSE, f |-> acc]

IsLeap(y) == (y % 4 = 0 /\ y % 100 # 0) \/ y % 400 = 0

DaysInMonth(y, m) ==
    IF m = 2 THEN (IF IsLeap(y) THEN 29 ELSE 28)
    ELSE IF m \in {4, 6, 9, 11} THEN 30 ELSE 31

\* datetime.datetime.strptime(s, fmt): the datetime, or ok = FALSE for the
\* ValueError raised when s does not match fmt or names no valid datetime
\* (year 0, a day the month does not have, second 60 or 61).
strptime(s, fmt) ==
    LET Made(ok, f) ==
            [ok |-> /\ ok
                    /\ f["%Y"] >= 1
                    /\ f["%d"] <= DaysInMonth(f["%Y"], f["%m"])
                    /\ f["%S"] <= 59,
             year |-> f["%Y"], month |-> f["%m"], day |-> f["%d"],
             hour |-> f["%H"], minute |-> f["%M"], second |-> f["%S"],
             microsecond |-> f["%f"]]
        Matched(r) == Made(r.ok, r.f)
    IN  Matched(MatchFormat(s, fmt, 1, 1, NoFields))

DaysBeforeYear(y) ==
    (y - 1) * 365 + ((y - 1) \div 4) - ((y - 1) \div 100) + ((y - 1) \div 400)

RECURSIVE DaysBeforeMonth(_, _)
DaysBeforeMonth(y, m) ==
    IF m = 1 THEN 0 ELSE DaysBeforeMonth(y, m - 1) + DaysInMonth(y, m - 1)

\* datetime.toordinal()
ToOrdinal(t) == DaysBeforeYear(t.year) + DaysBeforeMonth(t.year, t.month) + t.day

SecondOfDay(t) == t.hour * 3600 + t.minute * 60 + t.second

\* (endtime - starttime).total_seconds(), kept exact as whole seconds and
\* microseconds (0 .. 999999), the way timedelta normalises them.
total_seconds(endtime, starttime) ==
    LET s  == (ToOrdinal(endtime) - ToOrdinal(starttime)) * 86400
              + SecondOfDay(endtime) - SecondOfDay(starttime)
        us == endtime.microsecond - starttime.microsecond
    IN  IF us < 0 THEN [sec |-> s - 1, us |-> us + 1000000]
        ELSE [sec |-> s, us |-> us]

IsZeroDelta(delta) == delta.sec = 0 /\ delta.us = 0

\* (npts - 1) / delta, kept exact as the numerator and the divisor.
SamplingRate(npts, delta) == [num |-> npts - 1, sec |-> delta.sec, us |-> delta.us]

\* Whether a sampling rate is exactly the whole number hz.
RateIs(rate, hz) == rate.us = 0 /\ rate.sec # 0 /\ rate.num = hz * rate.sec

(***************************************************************************)
(* Names of the container.                                                 *)
(***************************************************************************)

Slash == << "/" >>

Dot == << "." >>

\* The separator of the four fields of a waveform name.
Sep == << "_", "_" >>

EmptyName == << >>

Waveforms == << "W", "a", "v", "e", "f", "o", "r", "m", "s" >>

AuxiliaryData == << "A", "u", "x", "i", "l", "i", "a", "r", "y", "D", "a", "t", "a" >>

ASDFDictName == << "A", "S", "D", "F", "D", "i", "c", "t" >>

QuakeML == << "Q", "u", "a", "k", "e", "M", "L" >>

StationXML == << "S", "t", "a", "t", "i", "o", "n", "X", "M", "L" >>

\* "/" + "/".join(parts)
PathOf(parts) == Slash \o Join(parts, Slash)

\* The default asdfdict_path, "/AuxiliaryData/ASDFDict".
DefaultDictPath == PathOf(<< AuxiliaryData, ASDFDictName >>)

(***************************************************************************)
(* The container: an HDF5 file as h5py shows it.  A node is a group, whose *)
(* items are its <<name, node>> children in the order h5py iterates them   *)
(* (by name), or a one-dimensional dataset with its length and, for the    *)
(* datasets the code decodes, its bytes.                                   *)
(***************************************************************************)

Dataset(n, bytes) == [kind |-> "Dataset", len |-> n, data |-> bytes, items |-> << >>]

Group(items) == [kind |-> "Group", len |-> 0, data |-> << >>, items |-> items]

ChildNames(g) == {g.items[i][1] : i \in DOMAIN g.items}

HasChild(g, name) == g.kind = "Group" /\ name \in ChildNames(g)

Child(g, name) == g.items[CHOOSE i \in DOMAIN g.items : g.items[i][1] = name][2]

\* The group with the child (created or replaced), its items kept in the order
\* of their names.
WithChild(g, name, node) ==
    LET names == ChildNames(g) \cup {name}
        order == SortedSeq(names)
    IN  Group([i \in DOMAIN order |->
                  << order[i], IF order[i] = name THEN node ELSE Child(g, order[i]) >>])

WithoutChild(g, name) ==
    LET order == SortedSeq(ChildNames(g) \ {name})
    IN  Group([i \in DOMAIN order |-> << order[i], Child(g, order[i]) >>])

\* file[path]: the node a path names, found = FALSE for the KeyError.
RECURSIVE Walk(_, _)
Walk(node, parts) ==
    IF Len(parts) = 0 THEN [found |-> TRUE, node |-> node]
    ELSE IF parts[1] = EmptyName THEN Walk(node, Tail(parts))
    ELSE IF HasChild(node, parts[1]) THEN Walk(Child(node, parts[1]), Tail(parts))
    ELSE [found |-> FALSE, node |-> node]

Lookup(file, path) == Walk(file, Split(path, Slash))

(***************************************************************************)
(* Python dict values: the structure dictionary.  A value is a dict, whose *)
(* items are its <<key, value>> pairs in insertion order, or an int.       *)
(***************************************************************************)

DInt(n) == [kind |-> "int", len |-> n, items |-> << >>]

DDict(items) == [kind |-> "dict", len |-> 0, items |-> items]

IsDict(d) == d.kind = "dict"

\* list(d.keys())
Keys(d) == [i \in DOMAIN d.items |-> d.items[i][1]]

\* list(d.values())
Values(d) == [i \in DOMAIN d.items |-> d.items[i][2]]

\* key in d
HasKey(d, key) == IsDict(d) /\ key \in Range(Keys(d))

\* d[key]
Get(d, key) == d.items[CHOOSE i \in DOMAIN d.items : d.items[i][1] = key][2]

\* d[key] = value: a new key goes last, a present key keeps its place.
DictSet(d, key, value) ==
    IF HasKey(d, key)
    THEN DDict([i \in DOMAIN d.items |->
                   IF d.items[i][1] = key THEN << key, value >> ELSE d.items[i]])
    ELSE DDict(Append(d.items, << key, value >>))

\* d.update(other)
RECURSIVE DictUpdate(_, _)
DictUpdate(d, items) ==
    IF Len(items) = 0 THEN d
    ELSE DictUpdate(DictSet(d, items[1][1], items[1][2]), Tail(items))

(***************************************************************************)
(* utils.py: gen_group_dict, dump_dict, read_dict and what they call.      *)
(***************************************************************************)

Last(seq) == seq[Len(seq)]

\* The h5py name of a child: the name of its parent, "/" and its key.
ChildPath(name, key) == IF name = Slash THEN name \o key ELSE name \o Slash \o key

\* gen_group_dict(group), group.name being name: a dataset gives
\* {local name: len(group)}, a group {local name: {...}} built by updating an
\* empty dict with what each child gives, in the order of group.keys().
RECURSIVE gen_group_dict(_, _)
RECURSIVE GenChildren(_, _, _)
gen_group_dict(name, group) ==
    LET n == Last(Split(name, Slash))
    IN  IF group.kind = "Dataset"
        THEN DDict(<< << n, DInt(group.len) >> >>)
        ELSE DDict(<< << n, GenChildren(name, group.items, DDict(<< >>)) >> >>)

GenChildren(name, items, dic) ==
    IF Len(items) = 0 THEN dic
    ELSE GenChildren(name, Tail(items),
             DictUpdate(dic,
                 gen_group_dict(ChildPath(name, items[1][1]), items[1][2]).items))

\* repr of a str: the names of the model hold no quote and no backslash, and
\* Python writes such a str between single quotes unchanged.
ReprStr(name) == << "'" >> \o name \o << "'" >>

\* str(dic): "{'key': value, ...}", an int in decimal.
RECURSIVE Repr(_)
RECURSIVE ReprItems(_)
Repr(d) ==
    IF d.kind = "int" THEN IntToStr(d.len)
    ELSE << "{" >> \o ReprItems(d.items) \o << "}" >>

ReprItems(items) ==
    IF Len(items) = 0 THEN << >>
    ELSE ReprStr(items[1][1]) \o << ":", " " >> \o Repr(items[1][2])
         \o (IF Len(items) = 1 THEN << >> ELSE << ",", " " >> \o ReprItems(Tail(items)))

\* The bytes of a number, least significant first, as gzip writes CRC32 and
\* ISIZE.
LittleEndian4(n) ==
    << n % 256, (n \div 256) % 256, (n \div 65536) % 256, (n \div 16777216) % 256 >>

FromLittleEndian4(b) == b[1] + 256 * b[2] + 65536 * b[3] + 16777216 * b[4]

\* The sum of the bytes b[from .. to], added up in runs of 32.
RECURSIVE SumRun(_, _, _)
SumRun(b, from, to) ==
    IF from > to THEN 0
    ELSE IF to - from >= 32
    THEN SumRun(b, from, from + 31) + SumRun(b, from + 32, to)
    ELSE b[from] + SumRun(b, from + 1, to)

\* The check value of the gzip trailer.  The model keeps a check that every
\* byte of the payload enters; CRC-32 itself is not computed.
Checksum(b) == SumRun(b, 1, Len(b)) % 65536

\* The ten header bytes gzip.compress writes: the magic 1f 8b, the method 8
\* (deflate), no flags, no modification time, XFL 2 and OS 255.
GzipHeader == << 31, 139, 8, 0, 0, 0, 0, 0, 2, 255 >>

\* A deflate stream of one stored block (BFINAL 1, BTYPE 00, LEN, NLEN, then
\* the bytes): the lossless coding of the payload, without its compression.
DeflateStored(b) ==
    LET n == Len(b)
    IN  << 1, n % 256, n \div 256, 255 - (n % 256), 255 - (n \div 256) >> \o b

\* gzip.compress(s)
GzipCompress(b) ==
    GzipHeader \o DeflateStored(b) \o LittleEndian4(Checksum(b)) \o LittleEndian4(Len(b))

\* gzip.decompress(b): the payload, or ok = FALSE where it raises (no gzip
\* magic, a truncated or malformed stream, a wrong check value or length).
GzipDecompress(b) ==
    LET n       == Len(b) - 23
        payload == SubSeq(b, 16, 15 + n)
        wellformed ==
            /\ n >= 0
            /\ SubSeq(b, 1, 4) = SubSeq(GzipHeader, 1, 4)
            /\ b[11] = 1
            /\ b[12] + 256 * b[13] = n
            /\ b[14] = 255 - b[12] /\ b[15] = 255 - b[13]
            /\ FromLittleEndian4(SubSeq(b, 16 + n, 19 + n)) = Checksum(payload)
            /\ FromLittleEndian4(SubSeq(b, 20 + n, 23 + n)) = n
    IN  IF wellformed THEN [ok |-> TRUE, data |-> payload]
        ELSE [ok |-> FALSE, data |-> << >>]

\* The bytes bytes.strip() removes at both ends: ASCII whitespace.
IsSpaceByte(c) == c \in {9, 10, 11, 12, 13, 32}

\* _read_string_array(array): array[()].tobytes().strip()
_read_string_array(b) ==
    LET n     == Len(b)
        first == CHOOSE i \in 1 .. n + 1 :
                     /\ i = n + 1 \/ ~IsSpaceByte(b[i])
                     /\ \A j \in 1 .. i - 1 : IsSpaceByte(b[j])
        cut   == CHOOSE k \in 0 .. n :
                     /\ k = n \/ ~IsSpaceByte(b[n - k])
                     /\ \A j \in 0 .. k - 1 : IsSpaceByte(b[n - j])
    IN  IF first > n THEN << >> ELSE SubSeq(b, first, n - cut)

\* The first position >= pos that holds no blank (Len(t) + 1 if none).
SkipSpaces(t, pos) ==
    IF pos > Len(t) THEN Len(t) + 1
    ELSE CHOOSE k \in pos .. Len(t) + 1 :
             /\ k = Len(t) + 1 \/ t[k] # " "
             /\ \A j \in pos .. k - 1 : t[j] = " "

EvalFail == [ok |-> FALSE, val |-> DInt(0), next |-> 0]

\* eval() of the text of a dictionary: Python reads a dict display
\* "{'key': value, ...}" whose values are dict displays or decimal numbers;
\* a later pair of the same key replaces the earlier value.  Any other text
\* is ok = FALSE: it raises, or gives a value that is no dictionary.
RECURSIVE EvalValue(_, _)
RECURSIVE EvalItems(_, _, _)
EvalValue(t, pos) ==
    LET p == SkipSpaces(t, pos)
    IN  IF p > Len(t) THEN EvalFail
        ELSE IF t[p] = "{" THEN EvalItems(t, p + 1, DDict(<< >>))
        ELSE IF IsDigit(t[p])
        THEN LET e == DigitRunEnd(t, p)
             IN  IF e > p /\ t[p] = "0" THEN EvalFail
                 ELSE [ok |-> TRUE, val |-> DInt(StrToInt(SubSeq(t, p, e))), next |-> e + 1]
        ELSE EvalFail

EvalItems(t, pos, acc) ==
    LET p == SkipSpaces(t, pos)
    IN  IF p > Len(t) THEN EvalFail
        ELSE IF t[p] = "}" THEN [ok |-> TRUE, val |-> acc, next |-> p + 1]
        ELSE IF t[p] # "'" THEN EvalFail
        ELSE LET q == Find(t, << "'" >>, p + 1)
                 c == SkipSpaces(t, q + 1)
             IN  IF q = 0 \/ c > Len(t) THEN EvalFail
                 ELSE IF t[c] # ":" THEN EvalFail
                 ELSE LET v == EvalValue(t, c + 1)
                          n == SkipSpaces(t, v.next)
                          d == DictSet(acc, SubSeq(t, p + 1, q - 1), v.val)
                      IN  IF ~v.ok \/ n > Len(t) THEN EvalFail
                          ELSE IF t[n] = "," THEN EvalItems(t, n + 1, d)
                          ELSE IF t[n] = "}" THEN [ok |-> TRUE, val |-> d, next |-> n + 1]
                          ELSE EvalFail

\* eval(bytes): the whole text must be one value.
Eval(b) ==
    LET t == Decode(b)
        v == EvalValue(t, 1)
    IN  IF v.ok /\ SkipSpaces(t, v.next) > Len(t) THEN v ELSE EvalFail

\* dump_dict with the dictionary built before the entry ASDFDict is deleted.
dump_dict_then_delete(file, name, compress) ==
    LET group ==
            IF Lookup(file, DefaultDictPath).found
            THEN WithChild(file, AuxiliaryData,
                           WithoutChild(Child(file, AuxiliaryData), ASDFDictName))
            ELSE file
        dic  == gen_group_dict(Slash, file)
        s    == Encode(Repr(dic))
        data == IF compress THEN GzipCompress(s) ELSE s
    IN  IF ~HasChild(group, AuxiliaryData)
        THEN [file |-> group, exc |-> "KeyError", dic |-> dic]
        ELSE IF HasChild(Child(group, AuxiliaryData), name)
        THEN [file |-> group, exc |-> "ValueError", dic |-> dic]
        ELSE [file |-> WithChild(group, AuxiliaryData,
                           WithChild(Child(group, AuxiliaryData), name,
                                     Dataset(Len(data), data))),
              exc |-> "none", dic |-> dic]

\* dump_dict(file, name, compress): the file afterwards and the exception the
\* call ends with ("none" when it returns).  The entry ASDFDict is deleted
\* first, whatever name is; then the dictionary of the whole file is built,
\* and stored under /AuxiliaryData as a new dataset of its bytes.
\* h5py raises KeyError for a missing /AuxiliaryData and ValueError when the
\* name to create exists.
dump_dict(file, name, compress) ==
    LET group ==
            IF Lookup(file, DefaultDictPath).found
            THEN WithChild(file, AuxiliaryData,
                           WithoutChild(Child(file, AuxiliaryData), ASDFDictName))
            ELSE file
        dic  == gen_group_dict(Slash, group)
        s    == Encode(Repr(dic))
        data == IF compress THEN GzipCompress(s) ELSE s
    IN  IF ~HasChild(group, AuxiliaryData)
        THEN [file |-> group, exc |-> "KeyError", dic |-> dic]
        ELSE IF HasChild(Child(group, AuxiliaryData), name)
        THEN [file |-> group, exc |-> "ValueError", dic |-> dic]
        ELSE [file |-> WithChild(group, AuxiliaryData,
                           WithChild(Child(group, AuxiliaryData), name,
                                     Dataset(Len(data), data))),
              exc |-> "none", dic |-> dic]

(***************************************************************************)
(* The partial-read gateway (sliderule.h5coro), as the code calls it.      *)
(***************************************************************************)

\* What the gateway may do with a path that names no dataset: raise, or give
\* back nothing.
MissModes == {"raise", "empty"}

\* h5file.read(path, 0, 0, -1): the whole dataset.
GatewayRead(file, path, miss) ==
    LET r == Lookup(file, path)
    IN  IF r.found /\ r.node.kind = "Dataset"
        THEN [exc |-> "none", len |-> r.node.len, data |-> r.node.data]
        ELSE [exc |-> IF miss = "raise" THEN "GatewayError" ELSE "none",
              len |-> 0, data |-> << >>]

\* read_dict without the except branch: what gzip raises ends the call.
read_dict_gzip_only(file, path, miss) ==
    LET Evaluated(got, unzipped, v) ==
            IF got.exc # "none" THEN [exc |-> got.exc, dic |-> DInt(0)]
            ELSE IF ~unzipped.ok THEN [exc |-> "BadGzipFile", dic |-> DInt(0)]
            ELSE IF ~v.ok THEN [exc |-> "SyntaxError", dic |-> DInt(0)]
            ELSE [exc |-> "none", dic |-> v.val]
        Unzipped(got, unzipped) == Evaluated(got, unzipped, Eval(unzipped.data))
        Read(got) == Unzipped(got, GzipDecompress(_read_string_array(got.data)))
    IN  Read(GatewayRead(file, path, miss))

\* read_dict(h5file, path): the dataset is read, stripped, decompressed when
\* gzip accepts it and left as it is when gzip raises, then evaluated.
read_dict(file, path, miss) ==
    LET Text(_str_byte, unzipped) == IF unzipped.ok THEN unzipped.data ELSE _str_byte
        Evaluated(got, v) ==
            IF got.exc # "none" THEN [exc |-> got.exc, dic |-> DInt(0)]
            ELSE IF ~v.ok THEN [exc |-> "SyntaxError", dic |-> DInt(0)]
            ELSE [exc |-> "none", dic |-> v.val]
        Stripped(got, _str_byte) ==
            Evaluated(got, Eval(Text(_str_byte, GzipDecompress(_str_byte))))
        Read(got) == Stripped(got, _read_string_array(got.data))
    IN  Read(GatewayRead(file, path, miss))

(***************************************************************************)
(* Waveform names into traces: parse_trace, CloudASDFDataSet.read_trace,   *)
(* WaveformAccessor._waveform_content and the two iterations.              *)
(***************************************************************************)

\* The tag of a trace no code has set.
Unset == << "UNSET" >>

NoTime == [ok |-> FALSE, year |-> 0, month |-> 0, day |-> 0, hour |-> 0,
           minute |-> 0, second |-> 0, microsecond |-> 0]

\* The header of an obspy.Trace as the code sets it.
Trace(net, sta, loc, cha, starttime, rate, tag, npts) ==
    [network |-> net, station |-> sta, location |-> loc, channel |-> cha,
     starttime |-> starttime, sampling_rate |-> rate, tag |-> tag, npts |-> npts]

NoTrace == Trace(<< >>, << >>, << >>, << >>, NoTime, SamplingRate(0, [sec |-> 0, us |-> 0]), Unset, 0)

Raised(e) == [exc |-> e, trace |-> NoTrace]

Returned(t) == [exc |-> "none", trace |-> t]

\* The try / except of parse_trace and of DatalessWaveformAccessor.__iter__:
\* both times in the fractional form, each cut to 26 characters; when either
\* raises, both in the whole-second form, uncut.
BothTimes(_starttime, _endtime) ==
    LET Tried(fs, fe, ws, we) ==
            IF fs.ok /\ fe.ok THEN [ok |-> TRUE, starttime |-> fs, endtime |-> fe]
            ELSE IF ws.ok /\ we.ok THEN [ok |-> TRUE, starttime |-> ws, endtime |-> we]
            ELSE [ok |-> FALSE, starttime |-> NoTime, endtime |-> NoTime]
    IN  Tried(strptime(Take(_starttime, 26), FmtFrac), strptime(Take(_endtime, 26), FmtFrac),
              strptime(_starttime, FmtWhole), strptime(_endtime, FmtWhole))

\* parse_trace(dname, data), npts being len(data).
parse_trace(dname, npts) ==
    LET Made(fields, code, times, delta) ==
            IF Len(fields) # 4 THEN Raised("ValueError")
            ELSE IF Len(code) # 4 THEN Raised("ValueError")
            ELSE IF ~times.ok THEN Raised("ValueError")
            ELSE IF IsZeroDelta(delta) THEN Raised("ZeroDivisionError")
            ELSE Returned(Trace(code[1], code[2], code[3], code[4], times.starttime,
                                SamplingRate(npts, delta), fields[4], npts))
        Timed(fields, times) ==
            Made(fields, Split(fields[1], Dot), times,
                 total_seconds(times.endtime, times.starttime))
        Unpacked(fields) == Timed(fields, BothTimes(fields[2], fields[3]))
    IN  Unpacked(Split(dname, Sep))

\* CloudASDFDataSet.read_trace(dataset): one gateway read of the whole
\* dataset, the times taken from the second and third "__" field of the path
\* in the whole-second form, the codes from the "." fields of the last path
\* component, the fourth cut to three characters.
read_trace(file, dataset, miss) ==
    LET Made(_i, _waveform, fields, starttime, endtime, delta) ==
            IF _waveform.exc # "none" THEN Raised(_waveform.exc)
            ELSE IF Len(fields) < 2 THEN Raised("IndexError")
            ELSE IF ~starttime.ok THEN Raised("ValueError")
            ELSE IF Len(fields) < 3 THEN Raised("IndexError")
            ELSE IF ~endtime.ok THEN Raised("ValueError")
            ELSE IF IsZeroDelta(delta) THEN Raised("ZeroDivisionError")
            ELSE IF Len(_i) < 4 THEN Raised("IndexError")
            ELSE Returned(Trace(_i[1], _i[2], _i[3], Take(_i[4], 3), starttime,
                                SamplingRate(_waveform.len, delta), Unset, _waveform.len))
        Timed(_i, _waveform, fields, starttime, endtime) ==
            Made(_i, _waveform, fields, starttime, endtime,
                 total_seconds(endtime, starttime))
        Unpacked(_i, _waveform, fields) ==
            Timed(_i, _waveform, fields, strptime(fields[2], FmtWhole),
                  strptime(fields[3], FmtWhole))
    IN  Unpacked(Split(Last(Split(dataset, Slash)), Dot),
                 GatewayRead(file, dataset, miss), Split(dataset, Sep))

\* WaveformAccessor._waveform_content(): one entry per key of the station
\* other than StationXML; a key that does not unpack into four "__" fields
\* and four "." codes raises ValueError and no content is returned.
RECURSIVE ContentOf(_, _)
ContentOf(items, content) ==
    IF Len(items) = 0 THEN [exc |-> "none", content |-> content]
    ELSE LET i      == items[1][1]
             npt    == items[1][2].len
             fields == Split(i, Sep)
             code   == Split(fields[1], Dot)
         IN  IF i = StationXML THEN ContentOf(Tail(items), content)
             ELSE IF Len(fields) # 4 \/ Len(code) # 4
             THEN [exc |-> "ValueError", content |-> << >>]
             ELSE ContentOf(Tail(items),
                      Append(content,
                          [net |-> code[1], sta |-> code[2], loc |-> code[3],
                           cha |-> code[4], starttime |-> fields[2],
                           endtime |-> fields[3], tag |-> fields[4], npt |-> npt,
                           name |-> i]))

_waveform_content(waveform_dict) == ContentOf(waveform_dict.items, << >>)

\* WaveformAccessor.__iter__: the content first, then one read_trace per
\* entry, its tag set from the content.  The result is what the generator
\* yielded, the exception that ended it and the paths the gateway was asked.
RECURSIVE IterFull(_, _, _, _, _)
IterFull(file, station_name, content, miss, out) ==
    LET Yield(c, t, seen) ==
            IF t.exc # "none" THEN [seen EXCEPT !.exc = t.exc]
            ELSE IterFull(file, station_name, Tail(content), miss,
                     [seen EXCEPT !.yielded = Append(@, [t.trace EXCEPT !.tag = c.tag])])
        Read(c, path) ==
            Yield(c, read_trace(file, path, miss), [out EXCEPT !.reads = Append(@, path)])
    IN  IF Len(content) = 0 THEN out
        ELSE Read(content[1],
                  Join(<< Slash \o Waveforms, station_name, content[1].name >>, Slash))

NothingYielded == [exc |-> "none", yielded |-> << >>, reads |-> << >>]

WaveformAccessor__iter__(file, acc, miss) ==
    LET Each(content) ==
            IF content.exc # "none" THEN [NothingYielded EXCEPT !.exc = content.exc]
            ELSE IterFull(file, acc.station_name, content.content, miss, NothingYielded)
    IN  Each(_waveform_content(acc.waveform_dict))

\* DatalessWaveformAccessor.__iter__: the same content, each entry made a
\* trace from the name and the length the dictionary holds; no read.
RECURSIVE IterDataless(_, _)
IterDataless(content, out) ==
    LET Yield(c, times, delta) ==
            IF ~times.ok THEN [out EXCEPT !.exc = "ValueError"]
            ELSE IF IsZeroDelta(delta) THEN [out EXCEPT !.exc = "ZeroDivisionError"]
            ELSE IterDataless(Tail(content),
                     [out EXCEPT !.yielded =
                         Append(@, Trace(c.net, c.sta, c.loc, c.cha, times.starttime,
                                         SamplingRate(c.npt, delta), c.tag, c.npt))])
        Timed(c, times) == Yield(c, times, total_seconds(times.endtime, times.starttime))
    IN  IF Len(content) = 0 THEN out
        ELSE Timed(content[1], BothTimes(content[1].starttime, content[1].endtime))

DatalessWaveformAccessor__iter__(acc) ==
    LET Each(content) ==
            IF content.exc # "none" THEN [NothingYielded EXCEPT !.exc = content.exc]
            ELSE IterDataless(content.content, NothingYielded)
    IN  Each(_waveform_content(acc.waveform_dict))

(***************************************************************************)
(* The accessors.  A CloudASDFDataSet is the record data_set of its fields *)
(* ASDFDict, waveforms (a StationAccessor: station_dict), auxiliary_data   *)
(* (an AuxiliaryDataGroupAccessor: auxiliarydata_dict) and events.         *)
(***************************************************************************)

\* Python None where a dictionary is expected.
None == [kind |-> "None", len |-> 0, items |-> << >>]

NoAccessor == [station_name |-> << >>, waveform_dict |-> None]

\* WaveformAccessor(station_name, data_set): waveform_dict is looked up in the
\* ASDFDict the data set holds now; a missing key is a KeyError.
WaveformAccessor(station_name, data_set) ==
    IF HasKey(data_set.ASDFDict, Waveforms)
       /\ HasKey(Get(data_set.ASDFDict, Waveforms), station_name)
    THEN [exc |-> "none",
          acc |-> [station_name |-> station_name,
                   waveform_dict |-> Get(Get(data_set.ASDFDict, Waveforms), station_name)]]
    ELSE [exc |-> "KeyError", acc |-> NoAccessor]

\* StationAccessor.list()
StationAccessor_list(data_set) == SortedSeq(Range(Keys(data_set.station_dict)))

\* StationAccessor.__getattr__(item, replace)
StationAccessor__getattr__(data_set, item, replace) ==
    LET name == IF replace THEN Replace(item, "_", ".") ELSE item
    IN  IF name \notin Range(StationAccessor_list(data_set))
        THEN [exc |-> "AttributeError", acc |-> NoAccessor]
        ELSE WaveformAccessor(name, data_set)

\* StationAccessor.__getitem__(item): the item as given, then with "_"
\* replaced; the second AttributeError becomes a KeyError.
StationAccessor__getitem__(data_set, item) ==
    LET first  == StationAccessor__getattr__(data_set, item, FALSE)
        second == StationAccessor__getattr__(data_set, item, TRUE)
    IN  IF first.exc # "AttributeError" THEN first
        ELSE IF second.exc # "AttributeError" THEN second
        ELSE [exc |-> "KeyError", acc |-> NoAccessor]

\* WaveformAccessor.list()[0]
WaveformAccessor_list(acc) == Keys(acc.waveform_dict)

\* WaveformAccessor.count_tag(tag)
count_tag(acc, tag) ==
    Cardinality({i \in DOMAIN WaveformAccessor_list(acc) :
                    Last(Split(WaveformAccessor_list(acc)[i], Sep)) = tag})

\* WaveformAccessor.get_waveform_tags(), as a set.
get_waveform_tags(acc) ==
    {Last(Split(i, Sep)) : i \in Range(WaveformAccessor_list(acc)) \ {StationXML}}

\* WaveformAccessor.filter_data(item)
filter_data(acc, item) ==
    LET _l == WaveformAccessor_list(acc)
        Tagged(i) == EndsWith(i, Sep \o item)
        keys == SelectSeq(_l, Tagged)
    IN  IF item = StationXML THEN [exc |-> "none", items |-> << item >>]
        ELSE IF item \in Range(_l) THEN [exc |-> "none", items |-> << item >>]
        ELSE IF ~Contains(item, Sep)
        THEN IF keys = << >>
             THEN [exc |-> "WaveformNotInFileError", items |-> << >>]
             ELSE [exc |-> "none", items |-> keys]
        ELSE [exc |-> "AttributeError", items |-> << >>]

\* h5file.readp(list): the datasets of the paths that name one, keyed by
\* path; for a path that names none the gateway raises or leaves the key out.
RECURSIVE GatewayReadp(_, _, _, _)
GatewayReadp(file, paths, miss, got) ==
    IF Len(paths) = 0 THEN [exc |-> "none", dict |-> got]
    ELSE LET r == Lookup(file, paths[1])
         IN  IF r.found /\ r.node.kind = "Dataset"
             THEN GatewayReadp(file, Tail(paths), miss,
                      DictSet(got, paths[1], [len |-> r.node.len, data |-> r.node.data]))
             ELSE IF miss = "raise" THEN [exc |-> "GatewayError", dict |-> DDict(<< >>)]
             ELSE GatewayReadp(file, Tail(paths), miss, got)

\* The loop of readp_array: _new_dict[item[0]] = _dict[prefix + item[0] + suffix]
RECURSIVE ArrayLoop(_, _, _, _, _)
ArrayLoop(_dict, readp_list, prefix, suffix, _new_dict) ==
    IF Len(readp_list) = 0 THEN [exc |-> "none", dict |-> _new_dict]
    ELSE LET key == prefix \o readp_list[1] \o suffix
         IN  IF ~HasKey(_dict, key) THEN [exc |-> "KeyError", dict |-> DDict(<< >>)]
             ELSE ArrayLoop(_dict, Tail(readp_list), prefix, suffix,
                      DictSet(_new_dict, readp_list[1], Get(_dict, key).len))

\* readp_array(h5file, readp_list, prefix, suffix), readp_list being the paths
\* (every entry reads the whole dataset); an array is kept as its length.
readp_array(file, readp_list, prefix, suffix, miss) ==
    LET _readp_list == [i \in DOMAIN readp_list |-> prefix \o readp_list[i] \o suffix]
        _dict       == GatewayReadp(file, _readp_list, miss, DDict(<< >>))
    IN  IF _dict.exc # "none" THEN _dict
        ELSE ArrayLoop(_dict.dict, readp_list, prefix, suffix, DDict(<< >>))

\* The loop of readp_dict: each array is stripped, decompressed when gzip
\* accepts it, and evaluated.
RECURSIVE DictLoop(_, _, _, _, _)
DictLoop(_dict, readp_list, prefix, suffix, new_dict) ==
    IF Len(readp_list) = 0 THEN [exc |-> "none", dict |-> new_dict]
    ELSE LET key       == prefix \o readp_list[1] \o suffix
             _str_byte == _read_string_array(Get(_dict, key).data)
             unzipped  == GzipDecompress(_str_byte)
             v         == Eval(IF unzipped.ok THEN unzipped.data ELSE _str_byte)
         IN  IF ~HasKey(_dict, key) THEN [exc |-> "KeyError", dict |-> DDict(<< >>)]
             ELSE IF ~v.ok THEN [exc |-> "SyntaxError", dict |-> DDict(<< >>)]
             ELSE DictLoop(_dict, Tail(readp_list), prefix, suffix,
                      DictSet(new_dict, readp_list[1], v.val))

\* readp_dict(h5file, readp_list, prefix, suffix)
readp_dict(file, readp_list, prefix, suffix, miss) ==
    LET _readp_list == [i \in DOMAIN readp_list |-> prefix \o readp_list[i] \o suffix]
        _dict       == GatewayReadp(file, _readp_list, miss, DDict(<< >>))
    IN  IF _dict.exc # "none" THEN _dict
        ELSE DictLoop(_dict.dict, readp_list, prefix, suffix, DDict(<< >>))

\* CloudASDFDataSet.read_stationxml(dataset): one gateway read, then the
\* document is parsed by obspy, which accepts it (parses = TRUE) or raises.
read_stationxml(file, dataset, miss, parses) ==
    LET stationxml == GatewayRead(file, dataset, miss)
    IN  IF stationxml.exc # "none" THEN [exc |-> stationxml.exc, reads |-> << dataset >>]
        ELSE IF ~parses \/ stationxml.len = 0
        THEN [exc |-> "ParseError", reads |-> << dataset >>]
        ELSE [exc |-> "none", reads |-> << dataset >>]

\* get_item without the test of waveform_dict: the StationXML of the station
\* is read whether the dictionary names it or not.
get_item_unguarded(file, acc, item, miss, parses) ==
    LET items    == filter_data(acc, item)
        content  == _waveform_content(acc.waveform_dict)
        datasets == [k \in DOMAIN items.items |->
                        Join(<< Slash \o Waveforms, acc.station_name, items.items[k] >>, Slash)]
        station  == read_stationxml(file,
                        Slash \o Waveforms \o Slash \o acc.station_name \o Slash \o StationXML,
                        miss, parses)
        arrays   == readp_array(file, datasets, << >>, << >>, miss)
        Fail(e)  == [exc |-> e, what |-> "nothing", dict |-> DDict(<< >>), reads |-> << >>]
    IN  IF items.exc # "none" THEN Fail(items.exc)
        ELSE IF items.items = << StationXML >>
        THEN [exc |-> station.exc,
              what |-> IF station.exc = "none" THEN "inventory" ELSE "nothing",
              dict |-> DDict(<< >>), reads |-> station.reads]
        ELSE IF content.exc # "none" THEN Fail(content.exc)
        ELSE [exc |-> arrays.exc,
              what |-> IF arrays.exc = "none" THEN "arrays" ELSE "nothing",
              dict |-> arrays.dict, reads |-> datasets]

\* WaveformAccessor.get_item(item) with parse = False.  StationXML: the
\* document of the station, NoStationXMLForStation when the station has
\* none.  Any other item: the filtered names, the content (built, not used),
\* then one batch read of the paths of the names.  The result holds the
\* mapping returned (what, dict), the exception and the paths the gateway
\* was asked.
get_item(file, acc, item, miss, parses) ==
    LET items    == filter_data(acc, item)
        content  == _waveform_content(acc.waveform_dict)
        datasets == [k \in DOMAIN items.items |->
                        Join(<< Slash \o Waveforms, acc.station_name, items.items[k] >>, Slash)]
        station  == read_stationxml(file,
                        Slash \o Waveforms \o Slash \o acc.station_name \o Slash \o StationXML,
                        miss, parses)
        arrays   == readp_array(file, datasets, << >>, << >>, miss)
        Fail(e)  == [exc |-> e, what |-> "nothing", dict |-> DDict(<< >>), reads |-> << >>]
    IN  IF items.exc # "none" THEN Fail(items.exc)
        ELSE IF items.items = << StationXML >>
        THEN IF ~HasKey(acc.waveform_dict, StationXML) THEN Fail("NoStationXMLForStation")
             ELSE [exc |-> station.exc,
                   what |-> IF station.exc = "none" THEN "inventory" ELSE "nothing",
                   dict |-> DDict(<< >>), reads |-> station.reads]
        ELSE IF content.exc # "none" THEN Fail(content.exc)
        ELSE [exc |-> arrays.exc,
              what |-> IF arrays.exc = "none" THEN "arrays" ELSE "nothing",
              dict |-> arrays.dict, reads |-> datasets]

\* AuxiliaryDataGroupAccessor.list()
AuxiliaryDataGroupAccessor_list(data_set) ==
    SortedSeq(Range(Keys(data_set.auxiliarydata_dict)))

\* AuxiliaryDataGroupAccessor.__len__()
AuxiliaryDataGroupAccessor__len__(data_set) == Len(AuxiliaryDataGroupAccessor_list(data_set))

(***************************************************************************)
(* asdf_data_set.py: CloudASDFDataSet.                                     *)
(***************************************************************************)

NoDataSet == [ASDFDict |-> None, station_dict |-> None, auxiliarydata_dict |-> None,
              events |-> "unset"]

\* CloudASDFDataSet.read_events(): one gateway read of /QuakeML, whatever the
\* dictionary holds, then the document is parsed by obspy.
read_events(file, miss, parses) ==
    LET eventxml == GatewayRead(file, Slash \o QuakeML, miss)
    IN  IF eventxml.exc # "none"
        THEN [exc |-> eventxml.exc, events |-> "unset", reads |-> << Slash \o QuakeML >>]
        ELSE IF ~parses \/ eventxml.len = 0
        THEN [exc |-> "ParseError", events |-> "unset", reads |-> << Slash \o QuakeML >>]
        ELSE [exc |-> "none", events |-> "parsed", reads |-> << Slash \o QuakeML >>]

\* CloudASDFDataSet.read_asdfdict(path): ASDFDict becomes the value the
\* decoded dictionary holds under ''; any exception on the way is raised as
\* CloudASDFValueError and ASDFDict is left as it was.  Nothing is returned.
read_asdfdict(data_set, file, path, miss) ==
    LET Assigned(r) ==
            IF r.exc # "none" \/ ~HasKey(r.dic, EmptyName)
            THEN [exc |-> "CloudASDFValueError", data_set |-> data_set]
            ELSE [exc |-> "none",
                  data_set |-> [data_set EXCEPT !.ASDFDict = Get(r.dic, EmptyName)]]
    IN  Assigned(read_dict(file, path, miss))

\* traverse_dataset(cloudasdfdataset): read_asdfdict() at the default path,
\* whose return value, None, is then subscripted.
traverse_dataset(data_set, file, miss) ==
    LET Subscripted(r) ==
            IF r.exc # "none" THEN r ELSE [exc |-> "TypeError", data_set |-> r.data_set]
    IN  Subscripted(read_asdfdict(data_set, file, DefaultDictPath, miss))

\* __init__ with only read_asdfdict inside the try: what an accessor raises
\* is raised as it is.
__init__narrow_try(file, asdfdict_path, opens, miss, parses) ==
    LET Step(n) == SubSeq(<< "h5coro", "read_asdfdict", "StationAccessor",
                             "AuxiliaryDataGroupAccessor", "events" >>, 1, n)
        Stations(ds) == [ds EXCEPT !.station_dict = Get(ds.ASDFDict, Waveforms)]
        Both(ds) == [ds EXCEPT !.auxiliarydata_dict = Get(ds.ASDFDict, AuxiliaryData)]
        Built(indexed, dic, events) ==
            IF ~opens
            THEN [exc |-> "GatewayOpenError", data_set |-> NoDataSet,
                  steps |-> Step(1), reads |-> << >>]
            ELSE IF indexed.exc # "none"
            THEN [exc |-> "ASDFDictNotInFileError", data_set |-> indexed.data_set,
                  steps |-> Step(2), reads |-> << asdfdict_path >>]
            ELSE IF ~HasKey(dic, Waveforms)
            THEN [exc |-> "KeyError", data_set |-> indexed.data_set,
                  steps |-> Step(3), reads |-> << asdfdict_path >>]
            ELSE IF ~HasKey(dic, AuxiliaryData)
            THEN [exc |-> "KeyError", data_set |-> Stations(indexed.data_set),
                  steps |-> Step(4), reads |-> << asdfdict_path >>]
            ELSE IF ~HasKey(dic, QuakeML)
            THEN [exc |-> "none",
                  data_set |-> [Both(Stations(indexed.data_set)) EXCEPT !.events = "empty"],
                  steps |-> Step(5), reads |-> << asdfdict_path >>]
            ELSE [exc |-> events.exc,
                  data_set |-> [Both(Stations(indexed.data_set)) EXCEPT !.events = events.events],
                  steps |-> Step(5), reads |-> << asdfdict_path >> \o events.reads]
        Indexed(indexed) ==
            Built(indexed, indexed.data_set.ASDFDict, read_events(file, miss, parses))
    IN  Indexed(read_asdfdict(NoDataSet, file, asdfdict_path, miss))

\* CloudASDFDataSet.__init__: the gateway handle (opens = FALSE: h5coro
\* raises), read_asdfdict, the two accessors, the events.  An exception of
\* read_asdfdict or of an accessor is raised as ASDFDictNotInFileError.  The
\* result holds the exception the constructor ends with, the object as far
\* as it was set and the steps entered, in order.
__init__(file, asdfdict_path, opens, miss, parses) ==
    LET Step(n) == SubSeq(<< "h5coro", "read_asdfdict", "StationAccessor",
                             "AuxiliaryDataGroupAccessor", "events" >>, 1, n)
        Stations(ds) == [ds EXCEPT !.station_dict = Get(ds.ASDFDict, Waveforms)]
        Both(ds) == [ds EXCEPT !.auxiliarydata_dict = Get(ds.ASDFDict, AuxiliaryData)]
        Built(indexed, dic, events) ==
            IF ~opens
            THEN [exc |-> "GatewayOpenError", data_set |-> NoDataSet,
                  steps |-> Step(1), reads |-> << >>]
            ELSE IF indexed.exc # "none"
            THEN [exc |-> "ASDFDictNotInFileError", data_set |-> indexed.data_set,
                  steps |-> Step(2), reads |-> << asdfdict_path >>]
            ELSE IF ~HasKey(dic, Waveforms)
            THEN [exc |-> "ASDFDictNotInFileError", data_set |-> indexed.data_set,
                  steps |-> Step(3), reads |-> << asdfdict_path >>]
            ELSE IF ~HasKey(dic, AuxiliaryData)
            THEN [exc |-> "ASDFDictNotInFileError", data_set |-> Stations(indexed.data_set),
                  steps |-> Step(4), reads |-> << asdfdict_path >>]
            ELSE IF ~HasKey(dic, QuakeML)
            THEN [exc |-> "none",
                  data_set |-> [Both(Stations(indexed.data_set)) EXCEPT !.events = "empty"],
                  steps |-> Step(5), reads |-> << asdfdict_path >>]
            ELSE [exc |-> events.exc,
                  data_set |-> [Both(Stations(indexed.data_set)) EXCEPT !.events = events.events],
                  steps |-> Step(5), reads |-> << asdfdict_path >> \o events.reads]
        Indexed(indexed) ==
            Built(indexed, indexed.data_set.ASDFDict, read_events(file, miss, parses))
    IN  Indexed(read_asdfdict(NoDataSet, file, asdfdict_path, miss))

(***************************************************************************)
(* The containers, keys and selectors the model draws from.                *)
(***************************************************************************)

StaOSD == << "U", "W", ".", "O", "S", "D" >>

StaSEP == << "U", "W", ".", "S", "E", "P" >>

\* A station whose name holds the substitute character.
StaUnder == << "U", "W", "_", "O", "S", "D" >>

KeySEP == << "U", "W", "_", "S", "E", "P" >>

StaMissing == << "U", "W", ".", "X", "X", "X" >>

OldName == << "O", "l", "d" >>

OldDictPath == PathOf(<< AuxiliaryData, OldName >>)

NoSuchName == << "N", "o", "n", "e" >>

Adjoint == << "A", "d", "j", "o", "i", "n", "t" >>

T0 == << "2", "0", "2", "1", "-", "0", "1", "-", "0", "1", "T", "0", "0", ":", "0", "0", ":", "0", "0" >>

T10 == << "2", "0", "2", "1", "-", "0", "1", "-", "0", "1", "T", "0", "0", ":", "1", "0", ":", "0", "0" >>

Micro0 == << ".", "0", "0", "0", "0", "0", "0" >>

CodeEHZ == << "U", "W", ".", "O", "S", "D", ".", ".", "E", "H", "Z" >>

CodeEHN == << "U", "W", ".", "O", "S", "D", ".", ".", "E", "H", "N" >>

TagRaw == << "r", "a", "w", "_", "r", "e", "c", "o", "r", "d", "i", "n", "g" >>

TagProc == << "p", "r", "o", "c" >>

\* A tag that starts with the character the separator is made of.
TagUnderProc == << "_" >> \o TagProc

TagMissing == << "s", "y", "n", "t", "h" >>

LeafName(code, starttime, endtime, tag) == Join(<< code, starttime, endtime, tag >>, Sep)

\* 'UW.OSD..EHZ__2021-01-01T00:00:00__2021-01-01T00:10:00__raw_recording'
LeafA == LeafName(CodeEHZ, T0, T10, TagRaw)

LeafB == LeafName(CodeEHN, T0, T10, TagRaw)

LeafC == LeafName(CodeEHZ, T0, T10, TagProc)

\* Both times in the fractional form.
LeafF == LeafName(CodeEHZ, T0 \o Micro0, T10 \o Micro0, TagRaw)

LeafU == LeafName(CodeEHN, T0, T10, TagUnderProc)

\* No name of a leaf, though it holds the separator.
NotALeaf == << "E", "H", "Z", "_", "_", "r", "a", "w" >>

Npts == 60001

GroupOf(names, nodes) ==
    LET order == SortedSeq(names)
    IN  Group([i \in DOMAIN order |-> << order[i], nodes[order[i]] >>])

\* A station with its StationXML and three whole-second waveforms, two of
\* one tag and one of another.
StationA ==
    GroupOf({StationXML, LeafA, LeafB, LeafC},
            [n \in {StationXML, LeafA, LeafB, LeafC} |->
                IF n = StationXML THEN Dataset(100, << >>) ELSE Dataset(Npts, << >>)])

\* A station without StationXML, with a fractional-second waveform and a
\* waveform whose tag starts with "_".
StationB ==
    GroupOf({LeafF, LeafU}, [n \in {LeafF, LeafU} |-> Dataset(Npts, << >>)])

Root(names, nodes) == GroupOf(names, nodes)

File1 ==
    Root({AuxiliaryData, Waveforms},
         [n \in {AuxiliaryData, Waveforms} |->
             IF n = AuxiliaryData THEN Group(<< >>)
             ELSE GroupOf({StaOSD}, [x \in {StaOSD} |-> StationA])])

File2 ==
    Root({AuxiliaryData, QuakeML, Waveforms},
         [n \in {AuxiliaryData, QuakeML, Waveforms} |->
             IF n = AuxiliaryData THEN GroupOf({Adjoint}, [x \in {Adjoint} |-> Group(<< >>)])
             ELSE IF n = QuakeML THEN Dataset(500, << >>)
             ELSE GroupOf({StaOSD, StaSEP},
                          [x \in {StaOSD, StaSEP} |-> IF x = StaOSD THEN StationA ELSE StationB])])

\* Both spellings are stations.
File3 ==
    Root({AuxiliaryData, Waveforms},
         [n \in {AuxiliaryData, Waveforms} |->
             IF n = AuxiliaryData THEN Group(<< >>)
             ELSE GroupOf({StaOSD, StaUnder},
                          [x \in {StaOSD, StaUnder} |-> IF x = StaOSD THEN StationB ELSE StationA])])

\* A container without the Waveforms group.
File4 == Root({AuxiliaryData}, [n \in {AuxiliaryData} |-> Group(<< >>)])

\* File1 after its dictionary was dumped uncompressed under Old and the
\* station UW.SEP was written to it afterwards.
File5 ==
    LET dumped == dump_dict(File1, OldName, FALSE).file
    IN  WithChild(dumped, Waveforms, WithChild(Child(dumped, Waveforms), StaSEP, StationB))

\* The text "{'': {'Waveforms': {}}}": a dictionary without AuxiliaryData.
TextNoAux ==
    << "{", "'", "'", ":", " ", "{", "'" >> \o Waveforms \o << "'", ":", " ", "{", "}", "}", "}" >>

\* File1 holding under Old a dictionary that was not written by dump_dict.
File6 ==
    WithChild(File1, AuxiliaryData,
        WithChild(Child(File1, AuxiliaryData), OldName,
                  Dataset(Len(TextNoAux), Encode(TextNoAux))))

\* File1 holding under Old a dictionary cut short.
File7 ==
    WithChild(File1, AuxiliaryData,
        WithChild(Child(File1, AuxiliaryData), OldName,
                  Dataset(Len(TextNoAux) - 2, Encode(SubSeq(TextNoAux, 1, Len(TextNoAux) - 2)))))

InitialFiles == {File1, File2, File3, File4, File5, File6, File7}

DumpNames == {ASDFDictName, OldName}

DictPaths == {DefaultDictPath, OldDictPath}

StationKeys == {StaOSD, StaSEP, StaUnder, KeySEP, StaMissing}

Selectors == {TagRaw, TagProc, TagMissing, LeafA, NotALeaf, StationXML}

\* The batches of three paths that are read, with their global prefix.
WaveformPrefix == Slash \o Waveforms \o Slash \o StaOSD \o Slash

AuxPrefix == Slash \o AuxiliaryData \o Slash

ArrayBatches ==
    { [prefix |-> WaveformPrefix, paths |-> << LeafA, LeafB, LeafC >>],
      [prefix |-> WaveformPrefix, paths |-> << LeafA, LeafF, LeafC >>],
      [prefix |-> << >>, paths |-> << WaveformPrefix \o LeafA, Slash \o QuakeML, DefaultDictPath >>] }

DictBatches ==
    { [prefix |-> AuxPrefix, paths |-> << ASDFDictName, OldName, NoSuchName >>],
      [prefix |-> AuxPrefix, paths |-> << ASDFDictName, OldName, ASDFDictName >>] }

(***************************************************************************)
(* The state.                                                              *)
(***************************************************************************)

VARIABLES
    file,       \* the container
    built,      \* per name: the dictionary dump_dict built when it wrote the
                \* dataset of that name that the container holds now
    pc,         \* "Unopened", "Ready" or "Failed": the CloudASDFDataSet
    init,       \* what __init__ ended with: exception, steps, reads
    data_set,   \* the CloudASDFDataSet that __init__ returned
    decoded,    \* the ASDFDict that __init__ set
    ret         \* the call in progress: operation, argument, result

vars == << file, built, pc, init, data_set, decoded, ret >>

NotBuilt == [written |-> FALSE, compress |-> FALSE, dic |-> None]

NotRun == [exc |-> "none", steps |-> << >>, reads |-> << >>, path |-> << >>]

\* The argument of a call without one, the value of a call that returns None.
Nothing == [nothing |-> TRUE]

Idle == [op |-> "idle", arg |-> Nothing, exc |-> "none", val |-> Nothing, reads |-> << >>]

\* File5 holds the dictionary dump_dict built for File1 under Old.
BuiltIn(f) ==
    [n \in DumpNames |->
        IF f = File5 /\ n = OldName
        THEN [written |-> TRUE, compress |-> FALSE, dic |-> dump_dict(File1, OldName, FALSE).dic]
        ELSE NotBuilt]

Init ==
    /\ file \in InitialFiles
    /\ built = BuiltIn(file)
    /\ pc = "Unopened"
    /\ init = NotRun
    /\ data_set = NoDataSet
    /\ decoded = None
    /\ ret = Idle

\* dump_dict(file, name, compress) on the container, before it is opened
\* for reading.
DumpDict(name, compress) ==
    /\ pc = "Unopened"
    /\ LET Dumped(r) ==
               /\ file' = r.file
               /\ built' = [n \in DumpNames |->
                               IF r.exc = "none" /\ n = name
                               THEN [written |-> TRUE, compress |-> compress, dic |-> r.dic]
                               ELSE IF n = ASDFDictName THEN NotBuilt
                               ELSE built[n]]
       IN  Dumped(dump_dict(file, name, compress))
    /\ UNCHANGED << pc, init, data_set, decoded, ret >>

\* CloudASDFDataSet(resource, format, path, asdfdict_path = ...)
Construct(asdfdict_path, opens, miss, parses) ==
    /\ pc = "Unopened"
    /\ LET Constructed(r) ==
               /\ pc' = IF r.exc = "none" THEN "Ready" ELSE "Failed"
               /\ init' = [exc |-> r.exc, steps |-> r.steps, reads |-> r.reads,
                           path |-> asdfdict_path]
               /\ data_set' = IF r.exc = "none" THEN r.data_set ELSE NoDataSet
               /\ decoded' = IF r.exc = "none" THEN r.data_set.ASDFDict ELSE None
       IN  Constructed(__init__(file, asdfdict_path, opens, miss, parses))
    /\ UNCHANGED << file, built, ret >>

Callable == pc = "Ready" /\ ret.op = "idle"

Call(op, arg, exc, val, reads) ==
    ret' = [op |-> op, arg |-> arg, exc |-> exc, val |-> val, reads |-> reads]

\* data_set.waveforms[key]
GetStation(key) ==
    /\ Callable
    /\ LET Got(r) == Call("waveforms[]", [key |-> key], r.exc, r.acc, << >>)
       IN  Got(StationAccessor__getitem__(data_set, key))
    /\ UNCHANGED << file, built, pc, init, data_set, decoded >>

\* getattr(data_set.waveforms, key)
GetStationAttr(key) ==
    /\ Callable
    /\ LET Got(r) == Call("waveforms.", [key |-> key], r.exc, r.acc, << >>)
       IN  Got(StationAccessor__getattr__(data_set, key, TRUE))
    /\ UNCHANGED << file, built, pc, init, data_set, decoded >>

\* data_set.waveforms[key].filter_data(item)
FilterData(key, item) ==
    /\ Callable
    /\ LET Filtered(a, r) ==
               Call("filter_data", [station_name |-> a.acc.station_name, item |-> item],
                    r.exc, [keys |-> r.items], << >>)
           Got(a) == a.exc = "none" /\ Filtered(a, filter_data(a.acc, item))
       IN  Got(StationAccessor__getitem__(data_set, key))
    /\ UNCHANGED << file, built, pc, init, data_set, decoded >>

\* data_set.waveforms[key].get_item(item)
GetItem(key, item, miss, parses) ==
    /\ Callable
    /\ LET Read(a, r) ==
               Call("get_item", [station_name |-> a.acc.station_name, item |-> item], r.exc,
                    [what |-> r.what, dict |-> r.dict], r.reads)
           Got(a) == a.exc = "none" /\ Read(a, get_item(file, a.acc, item, miss, parses))
       IN  Got(StationAccessor__getitem__(data_set, key))
    /\ UNCHANGED << file, built, pc, init, data_set, decoded >>

\* [t for t in data_set.waveforms[key]] next to
\* [t for t in data_set.waveforms[key].dataless()]
Iterate(key, miss) ==
    /\ Callable
    /\ LET Both(a, f, d) ==
               /\ a.exc = "none"
               /\ Call("iter", [station_name |-> a.acc.station_name], f.exc,
                       [full |-> f.yielded, dataless |-> d.yielded, dataless_exc |-> d.exc,
                        dataless_reads |-> d.reads,
                        names |-> WaveformAccessor_list(a.acc)],
                       f.reads)
           Got(a) == Both(a, WaveformAccessor__iter__(file, a.acc, miss),
                          DatalessWaveformAccessor__iter__(a.acc))
       IN  Got(StationAccessor__getitem__(data_set, key))
    /\ UNCHANGED << file, built, pc, init, data_set, decoded >>

\* data_set.read_events()
ReadEvents(miss, parses) ==
    /\ Callable
    /\ LET Read(r) == Call("read_events", Nothing, r.exc, [events |-> r.events], r.reads)
       IN  Read(read_events(file, miss, parses))
    /\ UNCHANGED << file, built, pc, init, data_set, decoded >>

\* data_set.read_asdfdict(path)
ReadAsdfdict(path, miss) ==
    /\ Callable
    /\ LET Read(r) ==
               /\ data_set' = r.data_set
               /\ Call("read_asdfdict", [path |-> path], r.exc, Nothing, << path >>)
       IN  Read(read_asdfdict(data_set, file, path, miss))
    /\ UNCHANGED << file, built, pc, init, decoded >>

\* traverse_dataset(data_set)
TraverseDataset(miss) ==
    /\ Callable
    /\ LET Traversed(r) ==
               /\ data_set' = r.data_set
               /\ Call("traverse_dataset", Nothing, r.exc, Nothing, << DefaultDictPath >>)
       IN  Traversed(traverse_dataset(data_set, file, miss))
    /\ UNCHANGED << file, built, pc, init, decoded >>

\* data_set.auxiliary_data.list() and len(data_set.auxiliary_data)
ListAuxiliary ==
    /\ Callable
    /\ Call("auxiliary_data.list", Nothing, "none",
            [list |-> AuxiliaryDataGroupAccessor_list(data_set),
             len |-> AuxiliaryDataGroupAccessor__len__(data_set)], << >>)
    /\ UNCHANGED << file, built, pc, init, data_set, decoded >>

\* readp_array(data_set._file, batch, prefix)
ReadpArray(batch, miss) ==
    /\ Callable
    /\ LET Read(r) == Call("readp_array", batch, r.exc, r.dict, << >>)
       IN  Read(readp_array(file, batch.paths, batch.prefix, << >>, miss))
    /\ UNCHANGED << file, built, pc, init, data_set, decoded >>

\* readp_dict(data_set._file, batch, prefix)
ReadpDict(batch, miss) ==
    /\ Callable
    /\ LET Read(r) == Call("readp_dict", batch, r.exc, r.dict, << >>)
       IN  Read(readp_dict(file, batch.paths, batch.prefix, << >>, miss))
    /\ UNCHANGED << file, built, pc, init, data_set, decoded >>

\* The caller takes the result; the data set can be called again.
Return ==
    /\ pc = "Ready"
    /\ ret.op # "idle"
    /\ ret' = Idle
    /\ UNCHANGED << file, built, pc, init, data_set, decoded >>

Next ==
    \/ \E name \in DumpNames, compress \in BOOLEAN : DumpDict(name, compress)
    \/ \E path \in DictPaths, opens \in BOOLEAN, miss \in MissModes, parses \in BOOLEAN :
           Construct(path, opens, miss, parses)
    \/ \E key \in StationKeys : GetStation(key)
    \/ \E key \in StationKeys : GetStationAttr(key)
    \/ \E key \in StationKeys, item \in Selectors : FilterData(key, item)
    \/ \E key \in StationKeys, item \in Selectors, miss \in MissModes, parses \in BOOLEAN :
           GetItem(key, item, miss, parses)
    \/ \E key \in StationKeys, miss \in MissModes : Iterate(key, miss)
    \/ \E miss \in MissModes, parses \in BOOLEAN : ReadEvents(miss, parses)
    \/ \E path \in DictPaths, miss \in MissModes : ReadAsdfdict(path, miss)
    \/ \E miss \in MissModes : TraverseDataset(miss)
    \/ ListAuxiliary
    \/ \E batch \in ArrayBatches, miss \in MissModes : ReadpArray(batch, miss)
    \/ \E batch \in DictBatches, miss \in MissModes : ReadpDict(batch, miss)
    \/ Return

Spec == Init /\ [][Next]_vars

(***************************************************************************)
(* Leaf names into traces: one leaf name and length, taken through each of *)
(* the three parsing paths.                                                *)
(***************************************************************************)

\* The longest channel code of the names that are parsed.
MaxChannelLen == 4

ChannelLetters == << "E", "H", "Z", "X", "Y", "W", "V", "U" >>

Channel(n) == Take(ChannelLetters, n)

T20 == << "2", "0", "2", "1", "-", "0", "1", "-", "0", "1", "T", "0", "0", ":", "2", "0", ":", "0", "0" >>

\* The end times of the names, with the seconds they lie after T0.
Ends == { [text |-> T10, sec |-> 600], [text |-> T20, sec |-> 1200] }

\* What a leaf name is made of: the channel code, whether both times are in
\* the fractional form, the end time, the tag, the length of the leaf.
NameParts ==
    [cha : {Channel(n) : n \in 2 .. MaxChannelLen}, frac : BOOLEAN, end : Ends,
     tag : {TagRaw, TagProc}, npts : {Npts, 2 * Npts - 1}]

NameOf(p) ==
    LeafName(StaOSD \o Dot \o Dot \o p.cha,
             IF p.frac THEN T0 \o Micro0 ELSE T0,
             IF p.frac THEN p.end.text \o Micro0 ELSE p.end.text,
             p.tag)

\* A container of one station with one leaf of that name and length.
NameFile(p) ==
    Root({AuxiliaryData, Waveforms},
         [n \in {AuxiliaryData, Waveforms} |->
             IF n = AuxiliaryData THEN Group(<< >>)
             ELSE GroupOf({StaOSD},
                      [x \in {StaOSD} |->
                          GroupOf({NameOf(p)}, [l \in {NameOf(p)} |-> Dataset(p.npts, << >>)])])])

NamePath(p) == Join(<< Slash \o Waveforms, StaOSD, NameOf(p) >>, Slash)

\* The container with its dictionary dumped, opened as a CloudASDFDataSet.
InitNames ==
    \E p \in NameParts :
        /\ file = dump_dict(NameFile(p), ASDFDictName, TRUE).file
        /\ built = [n \in DumpNames |->
                       IF n = ASDFDictName
                       THEN [written |-> TRUE, compress |-> TRUE,
                             dic |-> dump_dict(NameFile(p), ASDFDictName, TRUE).dic]
                       ELSE NotBuilt]
        /\ pc = "Ready"
        /\ init = [exc |-> "none",
                   steps |-> __init__(file, DefaultDictPath, TRUE, "raise", TRUE).steps,
                   reads |-> << DefaultDictPath >>, path |-> DefaultDictPath]
        /\ data_set = __init__(file, DefaultDictPath, TRUE, "raise", TRUE).data_set
        /\ decoded = data_set.ASDFDict
        /\ ret = [op |-> "name", arg |-> p, exc |-> "none", val |-> NoTrace, reads |-> << >>]

\* parse_trace(name, data), data holding the samples of the leaf
ParseTrace ==
    /\ LET Parsed(r) ==
               ret' = [op |-> "parse_trace", arg |-> ret.arg, exc |-> r.exc,
                       val |-> r.trace, reads |-> << >>]
       IN  Parsed(parse_trace(NameOf(ret.arg), ret.arg.npts))
    /\ UNCHANGED << file, built, pc, init, data_set, decoded >>

\* data_set.read_trace(path of the leaf)
ReadTrace(miss) ==
    /\ LET Read(r) ==
               ret' = [op |-> "read_trace", arg |-> ret.arg, exc |-> r.exc,
                       val |-> r.trace, reads |-> << NamePath(ret.arg) >>]
       IN  Read(read_trace(file, NamePath(ret.arg), miss))
    /\ UNCHANGED << file, built, pc, init, data_set, decoded >>

\* next(iter(data_set.waveforms[station].dataless()))
Dataless ==
    /\ LET Yielded(r) ==
               ret' = [op |-> "dataless", arg |-> ret.arg, exc |-> r.exc,
                       val |-> IF Len(r.yielded) > 0 THEN r.yielded[1] ELSE NoTrace,
                       reads |-> r.reads]
           Got(a) == a.exc = "none" /\ Yielded(DatalessWaveformAccessor__iter__(a.acc))
       IN  Got(StationAccessor__getitem__(data_set, StaOSD))
    /\ UNCHANGED << file, built, pc, init, data_set, decoded >>

NextNames ==
    \/ ParseTrace
    \/ \E miss \in MissModes : ReadTrace(miss)
    \/ Dataless

SpecNames == InitNames /\ [][NextNames]_vars

(***************************************************************************)
(* Leaf names of every shape: a name put together from a code, two times   *)
(* and the fields after them, taken through each of the three parsing      *)
(* paths.                                                                  *)
(***************************************************************************)

\* A code of three "." fields and a code of five.
Code3 == << "U", "W", ".", "O", "S", "D", ".", "E", "H", "Z" >>

Code5 == CodeEHZ \o << ".", "X" >>

LeafCodes == {CodeEHZ, Code3, Code5}

\* A date without a time: neither of the two forms strptime is given.
TDate == << "2", "0", "2", "1", "-", "0", "1", "-", "0", "1" >>

\* Ten minutes before T0.
TEarly == << "2", "0", "2", "0", "-", "1", "2", "-", "3", "1", "T", "2", "3", ":", "5", "0", ":", "0", "0" >>

\* The times of the names: the text, its form and the seconds after T0.
Stamp(text, form, at) == [text |-> text, form |-> form, at |-> at]

LeafStarts ==
    { Stamp(T0, "whole", 0), Stamp(T0 \o Micro0, "frac", 0), Stamp(TDate, "other", 0) }

LeafEnds ==
    { Stamp(T10, "whole", 600), Stamp(T10 \o Micro0, "frac", 600), Stamp(T0, "whole", 0),
      Stamp(TEarly, "whole", 0 - 600), Stamp(TDate, "other", 0) }

\* The fields after the end time: the tag, nothing, or the tag and one more.
LeafTails == { << TagRaw >>, << >>, << TagRaw, TagProc >> }

LeafParts == [code : LeafCodes, start : LeafStarts, end : LeafEnds, tail : LeafTails]

LeafOf(p) == Join(<< p.code, p.start.text, p.end.text >> \o p.tail, Sep)

\* A container of one station with one leaf of that name.
LeafFile(p) ==
    Root({AuxiliaryData, Waveforms},
         [n \in {AuxiliaryData, Waveforms} |->
             IF n = AuxiliaryData THEN Group(<< >>)
             ELSE GroupOf({StaOSD},
                      [x \in {StaOSD} |->
                          GroupOf({LeafOf(p)}, [l \in {LeafOf(p)} |-> Dataset(Npts, << >>)])])])

LeafPath(p) == Join(<< Slash \o Waveforms, StaOSD, LeafOf(p) >>, Slash)

\* The container with its dictionary dumped, opened as a CloudASDFDataSet.
InitLeaves ==
    \E p \in LeafParts :
        /\ file = dump_dict(LeafFile(p), ASDFDictName, TRUE).file
        /\ built = [n \in DumpNames |->
                       IF n = ASDFDictName
                       THEN [written |-> TRUE, compress |-> TRUE,
                             dic |-> dump_dict(LeafFile(p), ASDFDictName, TRUE).dic]
                       ELSE NotBuilt]
        /\ pc = "Ready"
        /\ init = [exc |-> "none",
                   steps |-> __init__(file, DefaultDictPath, TRUE, "raise", TRUE).steps,
                   reads |-> << DefaultDictPath >>, path |-> DefaultDictPath]
        /\ data_set = __init__(file, DefaultDictPath, TRUE, "raise", TRUE).data_set
        /\ decoded = data_set.ASDFDict
        /\ ret = [op |-> "name", arg |-> p, exc |-> "none", val |-> NoTrace, reads |-> << >>]

\* parse_trace(name, data), data holding the samples of the leaf
ParseLeaf ==
    /\ LET Parsed(r) ==
               ret' = [op |-> "parse_trace", arg |-> ret.arg, exc |-> r.exc,
                       val |-> r.trace, reads |-> << >>]
       IN  Parsed(parse_trace(LeafOf(ret.arg), Npts))
    /\ UNCHANGED << file, built, pc, init, data_set, decoded >>

\* data_set.read_trace(path of the leaf)
ReadLeaf(miss) ==
    /\ LET Read(r) ==
               ret' = [op |-> "read_trace", arg |-> ret.arg, exc |-> r.exc,
                       val |-> r.trace, reads |-> << LeafPath(ret.arg) >>]
       IN  Read(read_trace(file, LeafPath(ret.arg), miss))
    /\ UNCHANGED << file, built, pc, init, data_set, decoded >>

\* next(iter(data_set.waveforms[station].dataless()))
DatalessLeaf ==
    /\ LET Yielded(r) ==
               ret' = [op |-> "dataless", arg |-> ret.arg, exc |-> r.exc,
                       val |-> IF Len(r.yielded) > 0 THEN r.yielded[1] ELSE NoTrace,
                       reads |-> r.reads]
           Got(a) == a.exc = "none" /\ Yielded(DatalessWaveformAccessor__iter__(a.acc))
       IN  Got(StationAccessor__getitem__(data_set, StaOSD))
    /\ UNCHANGED << file, built, pc, init, data_set, decoded >>

NextLeaves ==
    \/ ParseLeaf
    \/ \E miss \in MissModes : ReadLeaf(miss)
    \/ DatalessLeaf

SpecLeaves == InitLeaves /\ [][NextLeaves]_vars

(***************************************************************************)
(* A station of three leaves, one of them with a malformed name or a       *)
(* malformed time, enumerated and read.                                    *)
(***************************************************************************)

\* The parts whose name is malformed, or one of whose times is, the times
\* being otherwise of one form and the end after the start.
MalformedParts ==
    { p \in LeafParts :
        /\ p.end.form = "other" \/ p.end.at > p.start.at
        /\ {p.start.form, p.end.form} # {"whole", "frac"}
        /\ \/ Len(p.tail) # 1
           \/ p.code # CodeEHZ
           \/ "other" \in {p.start.form, p.end.form} }

\* A container of one station with the leaves LeafA and LeafC and the leaf
\* of the parts.
StationFile(p) ==
    Root({AuxiliaryData, Waveforms},
         [n \in {AuxiliaryData, Waveforms} |->
             IF n = AuxiliaryData THEN Group(<< >>)
             ELSE GroupOf({StaOSD},
                      [x \in {StaOSD} |->
                          GroupOf({LeafA, LeafC, LeafOf(p)},
                                  [l \in {LeafA, LeafC, LeafOf(p)} |-> Dataset(Npts, << >>)])])])

\* The container with its dictionary dumped, opened as a CloudASDFDataSet.
InitStation ==
    \E p \in MalformedParts :
        /\ file = dump_dict(StationFile(p), ASDFDictName, TRUE).file
        /\ built = [n \in DumpNames |->
                       IF n = ASDFDictName
                       THEN [written |-> TRUE, compress |-> TRUE,
                             dic |-> dump_dict(StationFile(p), ASDFDictName, TRUE).dic]
                       ELSE NotBuilt]
        /\ pc = "Ready"
        /\ init = [exc |-> "none",
                   steps |-> __init__(file, DefaultDictPath, TRUE, "raise", TRUE).steps,
                   reads |-> << DefaultDictPath >>, path |-> DefaultDictPath]
        /\ data_set = __init__(file, DefaultDictPath, TRUE, "raise", TRUE).data_set
        /\ decoded = data_set.ASDFDict
        /\ ret = Idle

\* The well-formed leaf and the tag of a well-formed leaf that are asked for.
StationSelectors == {LeafA, TagProc}

NextStation ==
    \/ \E miss \in MissModes : Iterate(StaOSD, miss)
    \/ \E item \in StationSelectors, miss \in MissModes, parses \in BOOLEAN :
           GetItem(StaOSD, item, miss, parses)
    \/ Return

SpecStation == InitStation /\ [][NextStation]_vars

(***************************************************************************)
(* The references of the accessors to their CloudASDFDataSet, and the      *)
(* accessors the caller still holds after it dropped the data set.         *)
(***************************************************************************)

\* A WaveformAccessor that stores the data set itself.
AccessorRefStrong(class) == IF class = "WaveformAccessor" THEN "strong" ELSE "weak"

\* What the field data_set of an accessor is: each constructor stores
\* weakref.ref(data_set), and DatalessWaveformAccessor stores the reference
\* WaveformAccessor.dataless() hands it, which is that weakref.
AccessorRef(class) ==
    CASE class = "StationAccessor" -> "weak"
      [] class = "WaveformAccessor" -> "weak"
      [] class = "AuxiliaryDataGroupAccessor" -> "weak"
      [] class = "DatalessWaveformAccessor" -> "weak"

\* The accessors the caller holds: the two of the data set, and the one the
\* last call returned.
HeldAccessors ==
    {"StationAccessor", "AuxiliaryDataGroupAccessor"}
        \cup (IF ret.op = "waveforms[]" /\ ret.exc = "none" THEN {"WaveformAccessor"} ELSE {})
        \cup (IF ret.op = "dataless()" /\ ret.exc = "none"
              THEN {"DatalessWaveformAccessor"} ELSE {})

\* The data set after it was collected: its own fields are gone, the
\* dictionaries the accessors took at construction stay with the accessors.
Freed(ds) == [ds EXCEPT !.ASDFDict = None, !.events = "unset"]

\* Whether self.data_set() gives the data set (it gives None once the data
\* set was collected).
Alive == pc \in {"Ready", "Dropped"}

\* StationAccessor.__getitem__(item) through the reference: a listed station
\* is made a WaveformAccessor of self.data_set(), and weakref.ref(None) is a
\* TypeError.
getitem_via(alive, ds, item) ==
    IF alive THEN StationAccessor__getitem__(ds, item)
    ELSE IF item \in Range(StationAccessor_list(ds))
            \/ Replace(item, "_", ".") \in Range(StationAccessor_list(ds))
    THEN [exc |-> "TypeError", acc |-> NoAccessor]
    ELSE [exc |-> "KeyError", acc |-> NoAccessor]

\* WaveformAccessor.get_item(item) through the reference: the names are
\* filtered and the content is built from waveform_dict, the read is asked
\* of self.data_set(), and None has no read_stationxml and no _file.
get_item_via(alive, h5file, acc, item, miss, parses) ==
    LET Fail(e) == [exc |-> e, what |-> "nothing", dict |-> DDict(<< >>), reads |-> << >>]
        Dead(items, content) ==
            IF items.exc # "none" THEN Fail(items.exc)
            ELSE IF items.items = << StationXML >>
            THEN IF ~HasKey(acc.waveform_dict, StationXML) THEN Fail("NoStationXMLForStation")
                 ELSE Fail("AttributeError")
            ELSE IF content.exc # "none" THEN Fail(content.exc)
            ELSE Fail("AttributeError")
    IN  IF alive THEN get_item(h5file, acc, item, miss, parses)
        ELSE Dead(filter_data(acc, item), _waveform_content(acc.waveform_dict))

\* WaveformAccessor.__iter__ through the reference: the content is built
\* from waveform_dict, and the first entry asks self.data_set() for
\* read_trace.
iter_via(alive, h5file, acc, miss) ==
    LET Dead(content) ==
            IF content.exc # "none" THEN [NothingYielded EXCEPT !.exc = content.exc]
            ELSE IF Len(content.content) = 0 THEN NothingYielded
            ELSE [NothingYielded EXCEPT !.exc = "AttributeError"]
    IN  IF alive THEN WaveformAccessor__iter__(h5file, acc, miss)
        ELSE Dead(_waveform_content(acc.waveform_dict))

\* WaveformAccessor.coordinates through the reference: without StationXML in
\* waveform_dict NoStationXMLForStation, else the document is asked of
\* self.data_set().
coordinates_via(alive, h5file, acc, miss, parses) ==
    IF ~HasKey(acc.waveform_dict, StationXML)
    THEN [exc |-> "NoStationXMLForStation", reads |-> << >>]
    ELSE IF ~alive THEN [exc |-> "AttributeError", reads |-> << >>]
    ELSE read_stationxml(h5file,
             Slash \o Waveforms \o Slash \o acc.station_name \o Slash \o StationXML,
             miss, parses)

\* WaveformAccessor.dataless() through the reference: the constructor of
\* DatalessWaveformAccessor asks self.data_set() for ASDFDict.
dataless_via(alive, ds, acc) ==
    IF alive THEN WaveformAccessor(acc.station_name, ds)
    ELSE [exc |-> "AttributeError", acc |-> NoAccessor]

\* data_set.waveforms[key].dataless(), the data set being held
MakeDataless ==
    /\ pc = "Ready"
    /\ ret.op = "waveforms[]" /\ ret.exc = "none"
    /\ LET Made(r) == Call("dataless()", [station_name |-> ret.val.station_name],
                           r.exc, r.acc, << >>)
       IN  Made(dataless_via(TRUE, data_set, ret.val))
    /\ UNCHANGED << file, built, pc, init, data_set, decoded >>

\* del data_set: the caller keeps the accessors it holds.  The data set is
\* collected unless one of them refers to it other than weakly.
DropCatalog ==
    /\ pc = "Ready"
    /\ ret.op \in {"idle", "waveforms[]", "dataless()"}
    /\ LET Dropped(kept) ==
               /\ pc' = IF kept THEN "Dropped" ELSE "TornDown"
               /\ data_set' = IF kept THEN data_set ELSE Freed(data_set)
       IN  Dropped(\E class \in HeldAccessors : AccessorRef(class) # "weak")
    /\ UNCHANGED << file, built, init, decoded, ret >>

Gone == pc \in {"Dropped", "TornDown"}

HoldsWaveformAccessor == ret.op = "waveforms[]" /\ ret.exc = "none"

\* waveforms[key] on the StationAccessor that was kept
LookupAfter(key) ==
    /\ Gone
    /\ LET Got(r) == Call("after waveforms[]", [key |-> key], r.exc, r.acc, << >>)
       IN  Got(getitem_via(Alive, data_set, key))
    /\ UNCHANGED << file, built, pc, init, data_set, decoded >>

\* get_item(item) on the WaveformAccessor that was kept
GetItemAfter(item, miss, parses) ==
    /\ Gone /\ HoldsWaveformAccessor
    /\ LET Read(r) ==
               Call("after get_item", [station_name |-> ret.val.station_name, item |-> item],
                    r.exc, [what |-> r.what, dict |-> r.dict], r.reads)
       IN  Read(get_item_via(Alive, file, ret.val, item, miss, parses))
    /\ UNCHANGED << file, built, pc, init, data_set, decoded >>

\* [t for t in accessor] on the WaveformAccessor that was kept
IterateAfter(miss) ==
    /\ Gone /\ HoldsWaveformAccessor
    /\ LET Yielded(r) ==
               Call("after iter", [station_name |-> ret.val.station_name], r.exc,
                    [yielded |-> r.yielded,
                     leaves |-> Cardinality(Range(WaveformAccessor_list(ret.val))
                                                \ {StationXML})],
                    r.reads)
       IN  Yielded(iter_via(Alive, file, ret.val, miss))
    /\ UNCHANGED << file, built, pc, init, data_set, decoded >>

\* accessor.coordinates on the WaveformAccessor that was kept
CoordinatesAfter(miss, parses) ==
    /\ Gone /\ HoldsWaveformAccessor
    /\ LET Read(r) ==
               Call("after coordinates", [station_name |-> ret.val.station_name], r.exc,
                    Nothing, r.reads)
       IN  Read(coordinates_via(Alive, file, ret.val, miss, parses))
    /\ UNCHANGED << file, built, pc, init, data_set, decoded >>

\* accessor.dataless() on the WaveformAccessor that was kept
DatalessAfter ==
    /\ Gone /\ HoldsWaveformAccessor
    /\ LET Made(r) == Call("after dataless()", [station_name |-> ret.val.station_name],
                           r.exc, r.acc, << >>)
       IN  Made(dataless_via(Alive, data_set, ret.val))
    /\ UNCHANGED << file, built, pc, init, data_set, decoded >>

\* [t for t in accessor] on the DatalessWaveformAccessor that was kept: the
\* traces are made from its waveform_dict alone.
DatalessIterAfter ==
    /\ Gone
    /\ ret.op = "dataless()" /\ ret.exc = "none"
    /\ LET Yielded(r) ==
               Call("after dataless iter", [station_name |-> ret.val.station_name], r.exc,
                    [yielded |-> r.yielded], r.reads)
       IN  Yielded(DatalessWaveformAccessor__iter__(ret.val))
    /\ UNCHANGED << file, built, pc, init, data_set, decoded >>

NextTeardown ==
    \/ \E name \in DumpNames, compress \in BOOLEAN : DumpDict(name, compress)
    \/ \E path \in DictPaths, opens \in BOOLEAN, miss \in MissModes, parses \in BOOLEAN :
           Construct(path, opens, miss, parses)
    \/ \E key \in StationKeys : GetStation(key)
    \/ MakeDataless
    \/ DropCatalog
    \/ \E key \in StationKeys : LookupAfter(key)
    \/ \E item \in Selectors, miss \in MissModes, parses \in BOOLEAN :
           GetItemAfter(item, miss, parses)
    \/ \E miss \in MissModes : IterateAfter(miss)
    \/ \E miss \in MissModes, parses \in BOOLEAN : CoordinatesAfter(miss, parses)
    \/ DatalessAfter
    \/ DatalessIterAfter

SpecTeardown == Init /\ [][NextTeardown]_vars

(***************************************************************************)
(* Iteration over the StationAccessor of a data set.                       *)
(***************************************************************************)

\* StationAccessor.__len__()
StationAccessor__len__(ds) == Len(StationAccessor_list(ds))

\* StationAccessor.__iter__(): for every name of list() the accessor that
\* __getattr__(name) gives, replace being left at its default; the first
\* exception ends the generator.
RECURSIVE IterStations(_, _, _)
IterStations(ds, names, out) ==
    LET Yield(r) ==
            IF r.exc # "none" THEN [out EXCEPT !.exc = r.exc]
            ELSE IterStations(ds, Tail(names), [out EXCEPT !.yielded = Append(@, r.acc)])
    IN  IF Len(names) = 0 THEN out
        ELSE Yield(StationAccessor__getattr__(ds, names[1], TRUE))

StationAccessor__iter__(ds) ==
    IterStations(ds, StationAccessor_list(ds), [exc |-> "none", yielded |-> << >>])

\* [i for i in data_set.waveforms] next to len(data_set.waveforms)
IterateStations ==
    /\ Callable
    /\ LET Yielded(r) ==
               Call("iter(waveforms)", Nothing, r.exc,
                    [yielded |-> r.yielded, len |-> StationAccessor__len__(data_set),
                     list |-> StationAccessor_list(data_set)], << >>)
       IN  Yielded(StationAccessor__iter__(data_set))
    /\ UNCHANGED << file, built, pc, init, data_set, decoded >>

NextStations ==
    \/ \E name \in DumpNames, compress \in BOOLEAN : DumpDict(name, compress)
    \/ \E path \in DictPaths, opens \in BOOLEAN, miss \in MissModes, parses \in BOOLEAN :
           Construct(path, opens, miss, parses)
    \/ IterateStations

SpecStations == Init /\ [][NextStations]_vars

(***************************************************************************)
(* The claims.                                                             *)
(***************************************************************************)

\* The name the dictionary of the data set was read from.
IndexName == Last(Split(init.path, Slash))

\* The stations the StationAccessor lists.
Listed == Range(StationAccessor_list(data_set))

C1_Lookup ==
    ret.op = "waveforms[]" =>
        /\ ret.exc # "AttributeError"
        /\ IF ret.arg.key \in Listed
           THEN ret.exc = "none" /\ ret.val.station_name = ret.arg.key
           ELSE IF Replace(ret.arg.key, "_", ".") \in Listed
           THEN ret.exc = "none" /\ ret.val.station_name = Replace(ret.arg.key, "_", ".")
           ELSE ret.exc = "KeyError"

C1_BothSpellings ==
    (ret.op = "waveforms[]" /\ StaOSD \in Listed /\ ret.arg.key \in {StaOSD, StaUnder}) =>
        ret.exc = "none" /\ ret.val.station_name = StaOSD

\* C1: indexed lookup StationAccessor[k] returns the accessor of station k
\* when k is a station of the index, otherwise the accessor of the station k
\* names once every "_" is replaced by ".", otherwise it raises KeyError and
\* never AttributeError; with UW.OSD in the index, the keys UW.OSD and UW_OSD
\* give an accessor of the same station.
C1_IndexedLookup == C1_Lookup /\ C1_BothSpellings

\* The leaves of the station of a filter_data call, and those of them whose
\* fourth "__" field is the tag t.
LeavesOf(station_name) ==
    Range(Keys(Get(Get(data_set.ASDFDict, Waveforms), station_name))) \ {StationXML}

TaggedLeaves(station_name, t) ==
    {i \in LeavesOf(station_name) : Len(Split(i, Sep)) = 4 /\ Split(i, Sep)[4] = t}

\* C2: for a selector t without "__" that is not StationXML, filter_data(t)
\* gives exactly the leaves of the station whose tag, the fourth "__" field,
\* is t, and raises WaveformNotInFileError when no leaf has that tag.
C2_TagResolution ==
    (ret.op = "filter_data" /\ ~Contains(ret.arg.item, Sep) /\ ret.arg.item # StationXML) =>
        IF TaggedLeaves(ret.arg.station_name, ret.arg.item) = {}
        THEN ret.exc = "WaveformNotInFileError"
        ELSE /\ ret.exc = "none"
             /\ Range(ret.val.keys) = TaggedLeaves(ret.arg.station_name, ret.arg.item)
             /\ StationXML \notin Range(ret.val.keys)

\* Whether the container holds a dataset at the path of an entry of a batch.
Present(batch, k) ==
    LET r == Lookup(file, batch.prefix \o batch.paths[k])
    IN  r.found /\ r.node.kind = "Dataset"

\* C3: a batch read returns a mapping keyed by the paths of the caller, and
\* a path the gateway has nothing for does not abort the batch: the call
\* still returns the results of the other paths.
C3_BatchPartial ==
    ret.op \in {"readp_array", "readp_dict"} =>
        /\ ret.exc = "none"
        /\ Range(Keys(ret.val)) \subseteq Range(ret.arg.paths)
        /\ \A k \in DOMAIN ret.arg.paths :
               Present(ret.arg, k) => HasKey(ret.val, ret.arg.paths[k])

\* C4: over an index without QuakeML the events of the data set are the
\* empty catalog, every read_events() returns an empty catalog and does not
\* raise, and the gateway is not asked for /QuakeML.
C4_EventsAbsent ==
    (pc = "Ready" /\ ~HasKey(decoded, QuakeML)) =>
        /\ data_set.events = "empty"
        /\ Slash \o QuakeML \notin Range(init.reads)
        /\ ret.op = "read_events" =>
               ret.exc = "none" /\ ret.val.events = "empty" /\ ret.reads = << >>

\* C5: dataless iteration yields as many records as full iteration, in the
\* same order, with the same start time, sample count and sampling rate,
\* and reads nothing, while full iteration reads once per record.
C5_DatalessAsFull ==
    ret.op = "iter" =>
        /\ Len(ret.val.dataless) = Len(ret.val.full)
        /\ \A i \in DOMAIN ret.val.full :
               i \in DOMAIN ret.val.dataless =>
                   /\ ret.val.dataless[i].starttime = ret.val.full[i].starttime
                   /\ ret.val.dataless[i].npts = ret.val.full[i].npts
                   /\ ret.val.dataless[i].sampling_rate = ret.val.full[i].sampling_rate
        /\ ret.val.dataless_reads = << >>
        /\ Len(ret.reads) = Len(ret.val.full)

\* What dump_dict and read_dict make of the container for one name: the
\* dictionary built and the dictionary read back, written compressed and
\* written uncompressed.
RoundTrip(name, compress, miss) ==
    LET Read(d) ==
            [dumped |-> d.exc, built |-> d.dic,
             read |-> read_dict(d.file, PathOf(<< AuxiliaryData, name >>), miss)]
    IN  Read(dump_dict(file, name, compress))

\* C6: the dictionary read_dict decodes from what dump_dict wrote is the
\* dictionary gen_group_dict built, written compressed or uncompressed, so
\* both decode to the same dictionary.
C6_RoundTrip ==
    /\ pc = "Unopened" =>
           \A name \in DumpNames, miss \in MissModes :
               /\ \A compress \in BOOLEAN :
                      RoundTrip(name, compress, miss).dumped = "none" =>
                          /\ RoundTrip(name, compress, miss).read.exc = "none"
                          /\ RoundTrip(name, compress, miss).read.dic
                                 = RoundTrip(name, compress, miss).built
               /\ RoundTrip(name, TRUE, miss).read = RoundTrip(name, FALSE, miss).read
               /\ built[name].written =>
                      read_dict(file, PathOf(<< AuxiliaryData, name >>), miss)
                          = [exc |-> "none", dic |-> built[name].dic]
    /\ (pc = "Ready" /\ built[IndexName].written) =>
           decoded = Get(built[IndexName].dic, EmptyName)

\* An uncompressed dictionary written by dump_dict was decoded by the
\* constructor while a compressed one is in the container too.
C6_Witness ==
    /\ pc = "Ready"
    /\ init.path = OldDictPath
    /\ built[OldName].written /\ ~built[OldName].compress
    /\ built[ASDFDictName].written /\ built[ASDFDictName].compress
    /\ decoded = Get(built[OldName].dic, EmptyName)

\* The start of every name, as a datetime.
TimeT0 == [ok |-> TRUE, year |-> 2021, month |-> 1, day |-> 1, hour |-> 0,
           minute |-> 0, second |-> 0, microsecond |-> 0]

\* C7: every parsing path gives, for the leaf name NET.STA.LOC.CHA__START__
\* END__TAG and the length n, the network NET, the station STA, the location
\* LOC, the channel CHA cut to 3 characters, the start time START and the
\* sampling rate (n - 1) / (END - START).
C7_ParsingPaths ==
    ret.op \in {"parse_trace", "read_trace", "dataless"} =>
        /\ ret.exc = "none"
        /\ ret.val.network = << "U", "W" >>
        /\ ret.val.station = << "O", "S", "D" >>
        /\ ret.val.location = << >>
        /\ ret.val.channel = Take(ret.arg.cha, 3)
        /\ ret.val.starttime = TimeT0
        /\ ret.val.sampling_rate
               = [num |-> ret.arg.npts - 1, sec |-> ret.arg.end.sec, us |-> 0]

\* The name of the docstring of read_trace with 60001 samples went through
\* read_trace: UW, OSD, no location, EHZ, 100 Hz.
C7_Example ==
    /\ ret.op = "read_trace"
    /\ NameOf(ret.arg) = LeafA /\ ret.arg.npts = Npts
    /\ ret.exc = "none"
    /\ ret.val.network = << "U", "W" >> /\ ret.val.station = << "O", "S", "D" >>
    /\ ret.val.location = << >> /\ ret.val.channel = << "E", "H", "Z" >>
    /\ RateIs(ret.val.sampling_rate, 100)

ConstructionOrder ==
    << "h5coro", "read_asdfdict", "StationAccessor", "AuxiliaryDataGroupAccessor", "events" >>

\* Whether the dataset at the path does not decode to a dictionary that
\* holds, under '', the groups Waveforms and AuxiliaryData.
IndexFails(path) ==
    LET Checked(r) ==
            \/ r.exc # "none"
            \/ ~HasKey(r.dic, EmptyName)
            \/ ~HasKey(Get(r.dic, EmptyName), Waveforms)
            \/ ~HasKey(Get(r.dic, EmptyName), AuxiliaryData)
    IN  Checked(read_dict(file, path, "raise"))

\* C8: construction enters its steps in order and ends Ready, with the
\* index, both accessors and the events set, or Failed, with an exception
\* and no object; an index that cannot be loaded, or lacks Waveforms or
\* AuxiliaryData, ends it with ASDFDictNotInFileError, which a failed gateway
\* open never does, and after a failed open nothing is read.
C8_Construction ==
    /\ pc = "Unopened" => init = NotRun /\ data_set = NoDataSet
    /\ pc # "Unopened" =>
           /\ pc \in {"Ready", "Failed"}
           /\ Len(init.steps) >= 1
           /\ init.steps = SubSeq(ConstructionOrder, 1, Len(init.steps))
           /\ pc = "Ready" <=> init.exc = "none"
           /\ init.steps = << "h5coro" >> <=> init.exc = "GatewayOpenError"
           /\ init.exc = "GatewayOpenError" => init.reads = << >>
           /\ Len(init.steps) \in 2 .. 4 <=> init.exc = "ASDFDictNotInFileError"
    /\ pc = "Ready" =>
           /\ init.steps = ConstructionOrder
           /\ IsDict(decoded)
           /\ IsDict(data_set.station_dict) /\ IsDict(data_set.auxiliarydata_dict)
           /\ data_set.events \in {"empty", "parsed"}
    /\ pc = "Failed" => data_set = NoDataSet /\ decoded = None
    /\ (pc # "Unopened" /\ ret.op = "idle" /\ init.steps # << "h5coro" >>) =>
           (IndexFails(init.path) <=> init.exc = "ASDFDictNotInFileError")

\* The constructor failed on an index that decodes but lacks AuxiliaryData.
C8_Witness ==
    /\ pc = "Failed"
    /\ init.exc = "ASDFDictNotInFileError"
    /\ init.steps = SubSeq(ConstructionOrder, 1, 4)

\* C9: once the data set is Ready no operation changes its index: ASDFDict,
\* the station_dict of the StationAccessor and the auxiliarydata_dict of the
\* AuxiliaryDataGroupAccessor stay the dictionary decoded at construction,
\* and every station the StationAccessor lists opens as a WaveformAccessor.
C9_IndexImmutable ==
    pc = "Ready" =>
        /\ data_set.ASDFDict = decoded
        /\ data_set.station_dict = Get(decoded, Waveforms)
        /\ data_set.auxiliarydata_dict = Get(decoded, AuxiliaryData)
        /\ \A station_name \in Listed : WaveformAccessor(station_name, data_set).exc = "none"

IsSorted(l) == \A i \in 1 .. Len(l) - 1 : StrLess(l[i], l[i + 1])

\* C10: AuxiliaryDataGroupAccessor.list() is the sorted names of the
\* children of AuxiliaryData, without ASDFDict and without the name the
\* index was stored under, and len() is its length, for an index dump_dict
\* wrote under any name and after several runs of dump_dict.
C10_AuxiliaryList ==
    pc = "Ready" =>
        /\ IsSorted(AuxiliaryDataGroupAccessor_list(data_set))
        /\ Range(AuxiliaryDataGroupAccessor_list(data_set))
               = Range(Keys(Get(decoded, AuxiliaryData)))
        /\ Range(AuxiliaryDataGroupAccessor_list(data_set))
               \subseteq ChildNames(Child(file, AuxiliaryData)) \ {ASDFDictName, IndexName}
        /\ AuxiliaryDataGroupAccessor__len__(data_set)
               = Len(AuxiliaryDataGroupAccessor_list(data_set))
        /\ ret.op = "auxiliary_data.list" =>
               /\ ret.val.list = AuxiliaryDataGroupAccessor_list(data_set)
               /\ ret.val.len = Len(ret.val.list)

\* dump_dict ran under both names, and the list of the index stored under
\* ASDFDict names the dataset Old.
C10_Witness ==
    /\ pc = "Ready"
    /\ init.path = DefaultDictPath
    /\ built[OldName].written /\ built[ASDFDictName].written
    /\ ret.op = "auxiliary_data.list"
    /\ OldName \in Range(ret.val.list)

\* The path get_item reads the StationXML of a station from.
StationXMLPath(station_name) ==
    Slash \o Waveforms \o Slash \o station_name \o Slash \o StationXML

\* Whether the container holds a dataset with bytes at the path.
Holds(path) ==
    LET Found(r) == r.found /\ r.node.kind = "Dataset" /\ r.node.len > 0
    IN  Found(Lookup(file, path))

\* What get_item('StationXML') gives for an accessor: with StationXML in the
\* waveform_dict one read of the document, which is returned when the
\* gateway has it and obspy parses it and is otherwise the error of the
\* gateway or of obspy; without it NoStationXMLForStation and no read.
StationXMLResolved(acc, miss, parses) ==
    LET Got(r) ==
            IF HasKey(acc.waveform_dict, StationXML)
            THEN /\ r.reads = << StationXMLPath(acc.station_name) >>
                 /\ r.exc \in {"none", "GatewayError", "ParseError"}
                 /\ r.exc = "none" <=> r.what = "inventory"
                 /\ (Holds(StationXMLPath(acc.station_name)) /\ parses) => r.exc = "none"
            ELSE /\ r.exc = "NoStationXMLForStation"
                 /\ r.reads = << >>
                 /\ r.what = "nothing"
    IN  Got(get_item(file, acc, StationXML, miss, parses))

\* C11: get_item('StationXML') gives the StationXML document of the station
\* through one gateway read of /Waveforms/<station>/StationXML when the
\* dictionary of the station holds StationXML, and otherwise raises
\* NoStationXMLForStation without a gateway read, which no failure of the
\* gateway raises.
C11_StationXML ==
    /\ (ret.op = "get_item" /\ ret.arg.item = StationXML) =>
           IF StationXML \in Range(Keys(Get(Get(data_set.ASDFDict, Waveforms),
                                            ret.arg.station_name)))
           THEN /\ ret.reads = << StationXMLPath(ret.arg.station_name) >>
                /\ ret.exc \in {"none", "GatewayError", "ParseError"}
                /\ ret.exc = "none" <=> ret.val.what = "inventory"
           ELSE ret.exc = "NoStationXMLForStation" /\ ret.reads = << >>
    /\ pc = "Ready" =>
           \A key \in StationKeys, miss \in MissModes, parses \in BOOLEAN :
               StationAccessor__getitem__(data_set, key).exc = "none" =>
                   StationXMLResolved(StationAccessor__getitem__(data_set, key).acc,
                                      miss, parses)

\* get_item('StationXML') on a station without StationXML raised
\* NoStationXMLForStation and read nothing.
C11_Witness ==
    /\ ret.op = "get_item"
    /\ ret.arg.item = StationXML
    /\ ~HasKey(Get(Get(data_set.ASDFDict, Waveforms), ret.arg.station_name), StationXML)
    /\ ret.exc = "NoStationXMLForStation"
    /\ ret.reads = << >>

\* The operations that make a trace of one leaf name.
ParsingOps == {"parse_trace", "read_trace", "dataless"}

\* Whether the name of the parts splits on "__" into four fields, the first
\* of which splits on "." into four.
WellFormedName(p) ==
    /\ Len(Split(LeafOf(p), Sep)) = 4
    /\ Len(Split(Split(LeafOf(p), Sep)[1], Dot)) = 4

\* C12: a leaf name that does not split on "__" into exactly four fields, or
\* whose first field does not split on "." into exactly four, is rejected
\* with an error by parse_trace, by read_trace and by dataless iteration:
\* none of them returns a trace for it.
C12_MalformedName ==
    (ret.op \in ParsingOps /\ ~WellFormedName(ret.arg)) => ret.exc # "none"

\* C13: each of the two times of a leaf name is accepted in the fractional
\* form and in the whole-second form, whatever the form of the other, by
\* parse_trace, by read_trace and by dataless iteration, and a time in any
\* other form is a ValueError and never gives a trace.
C13_TimestampForms ==
    (ret.op \in ParsingOps /\ WellFormedName(ret.arg)) =>
        /\ ({ret.arg.start.form, ret.arg.end.form} \subseteq {"whole", "frac"}
                /\ ret.arg.end.at > ret.arg.start.at) =>
               ret.exc = "none" /\ ret.val.starttime = TimeT0
        /\ "other" \in {ret.arg.start.form, ret.arg.end.form} => ret.exc = "ValueError"

\* Whether a sampling rate, a count over a timedelta, is above zero.
IsPositiveRate(rate) ==
    /\ rate.num > 0
    /\ rate.sec > 0 \/ (rate.sec = 0 /\ rate.us > 0)

\* C14: every trace parse_trace, read_trace or dataless iteration returns
\* has its end time after its start time and a sampling rate above zero; a
\* leaf name whose end time is its start time raises an error, and a leaf
\* name whose end time is before its start time gives no trace.
C14_EndAfterStart ==
    ret.op \in ParsingOps =>
        /\ ret.exc = "none" =>
               /\ ret.arg.end.at > ret.arg.start.at
               /\ IsPositiveRate(ret.val.sampling_rate)
        /\ ret.arg.end.at <= ret.arg.start.at => ret.exc # "none"

\* Whether a time is of one of the two forms.
TimeParses(text) ==
    strptime(Take(text, 26), FmtFrac).ok \/ strptime(text, FmtWhole).ok

\* Whether a leaf name has four "__" fields, a code of four "." fields and
\* two times of one of the two forms.
GoodLeaf(name) ==
    LET Checked(fields) ==
            /\ Len(fields) = 4
            /\ Len(Split(fields[1], Dot)) = 4
            /\ TimeParses(fields[2]) /\ TimeParses(fields[3])
    IN  Checked(Split(name, Sep))

GoodLeaves(station_name) == {i \in LeavesOf(station_name) : GoodLeaf(i)}

\* The path get_item reads a leaf of a station from.
LeafPathOf(station_name, name) == Join(<< Slash \o Waveforms, station_name, name >>, Slash)

\* C15: over a station of several leaves of which one has a malformed name
\* or time, full iteration and dataless iteration yield a trace for every
\* well-formed leaf, and get_item on a well-formed leaf or on its tag
\* returns the data of the well-formed leaves it selects: the malformed leaf
\* does not end the enumeration.
C15_PerRecord ==
    /\ ret.op = "iter" =>
           /\ Len(ret.val.full) = Cardinality(GoodLeaves(ret.arg.station_name))
           /\ Len(ret.val.dataless) = Cardinality(GoodLeaves(ret.arg.station_name))
    /\ ret.op = "get_item" =>
           /\ ret.exc = "none"
           /\ \A i \in GoodLeaves(ret.arg.station_name) :
                  (i = ret.arg.item \/ Last(Split(i, Sep)) = ret.arg.item) =>
                      HasKey(ret.val.dict, LeafPathOf(ret.arg.station_name, i))

\* C16: the accessors refer to their data set weakly, so the data set is
\* collected as soon as the caller drops it, whatever accessors the caller
\* still holds; after that a station lookup, get_item, coordinates and
\* dataless() on a kept accessor raise, iteration raises before it yields
\* a trace, and none of them reads from the gateway.
C16_WeakReference ==
    /\ pc # "Dropped"
    /\ pc = "TornDown" => data_set.ASDFDict = None
    /\ ret.op \in {"after waveforms[]", "after get_item", "after coordinates",
                   "after dataless()"} =>
           ret.exc # "none" /\ ret.reads = << >>
    /\ ret.op = "after iter" =>
           /\ ret.reads = << >>
           /\ ret.val.yielded = << >>
           /\ ret.val.leaves > 0 => ret.exc # "none"
    /\ ret.op = "after dataless iter" => ret.reads = << >>

\* The data set was collected while the caller held a WaveformAccessor, and
\* get_item of a tag of the station raised for want of the data set.
C16_Witness ==
    /\ pc = "TornDown"
    /\ ret.op = "after get_item"
    /\ ret.arg.item = TagRaw
    /\ ret.exc = "AttributeError"
    /\ ret.reads = << >>

\* C17: iterating the StationAccessor yields one WaveformAccessor per
\* station of the index, in the order of StationAccessor.list(), each of the
\* station of that name, so as many as len(StationAccessor), also for a
\* station whose name holds "_".
C17_StationIteration ==
    ret.op = "iter(waveforms)" =>
        /\ ret.exc = "none"
        /\ Len(ret.val.yielded) = ret.val.len
        /\ ret.val.len = Cardinality(Range(Keys(data_set.station_dict)))
        /\ \A i \in DOMAIN ret.val.yielded :
               /\ i \in DOMAIN ret.val.list
               /\ ret.val.yielded[i].station_name = ret.val.list[i]
               /\ ret.val.yielded[i].waveform_dict
                      = Get(data_set.station_dict, ret.val.list[i])
====
